---- MODULE Spec2Model ----
(***************************************************************************)
(* Model of the retrieval-augmented generation core of the backend:        *)
(*   services/embedding_service.py   EmbeddingService   (Embedder)         *)
(*   services/vector_db_service.py   VectorDBService    (VectorIndex)      *)
(*   services/chunking_service.py    ChunkingService    (Chunker)          *)
(*   services/content_indexer.py     ContentIndexer     (Indexer)          *)
(*   services/rag_service.py         RAGService         (query)            *)
(*   utils/exceptions.py             the exception taxonomy                *)
(* The embedding provider, the vector backend and the generation provider  *)
(* are the environment: each outbound call either answers or fails, and    *)
(* that choice is an input of the action that makes the call.              *)
(***************************************************************************)
EXTENDS Integers, Sequences, FiniteSets, TLC

VARIABLES
    emb_initialized,   \* EmbeddingService._initialized
    vdb_initialized,   \* VectorDBService._initialized
    backend_exists,    \* the backend index has been created (pc.create_index)
    index,             \* the vector store: a set of [id, values, metadata]
    last,              \* outcome of the last completed service or indexer call
    eb,                \* frame of the running generate_embeddings_batch call
    bt,                \* frame of the running index_content_batch call
    rq,                \* frame of the running RAGService.query call
    gemini_initialized \* RAGService._gemini_initialized

vars == <<emb_initialized, vdb_initialized, backend_exists, index, last, eb, bt, rq,
          gemini_initialized>>

\* ------------------------------------------------------------------ bounds
MaxTexts == 4       \* texts handed to one generate_embeddings_batch call
MaxBatchSize == 3   \* largest batch_size tried
MaxChunks == 2      \* paragraphs of the longest content body
MaxBatchItems == 2  \* items of the longest index_content_batch list
MaxTopK == 3        \* largest top_k of a query

\* ------------------------------------------------------------- exceptions
\* utils/exceptions.py: every exception of the taxonomy is an APIException
\* carrying a code and a retryable flag fixed by its constructor.
APIException(code, retryable) == [code |-> code, retryable |-> retryable]

EmbeddingGenerationError == APIException("EMBEDDING_GENERATION_ERROR", TRUE)

VectorDBError == APIException("VECTOR_DB_ERROR", TRUE)

ChunkingError == APIException("CHUNKING_ERROR", FALSE)

\* RAGPipelineError(message): the constructor takes only the message of the
\* cause (str(e)); the flag is the constant of the class.
RAGPipelineError(cause) == APIException("RAG_PIPELINE_ERROR", TRUE)

NoError == [code |-> "none", retryable |-> FALSE]

Idle == [op |-> "none", pc |-> "idle"]

\* ---------------------------------------------------------------- helpers
Min(a, b) == IF a < b THEN a ELSE b

Range(s) == {s[k] : k \in 1..Len(s)}

RECURSIVE SeqsUpTo(_, _)
SeqsUpTo(S, n) ==
    IF n = 0 THEN {<<>>}
    ELSE LET shorter == SeqsUpTo(S, n - 1)
         IN  shorter \cup {Append(s, x) : s \in {t \in shorter : Len(t) = n - 1}, x \in S}

\* The services' shared state as one value, so that a service method is an
\* operator from (world, arguments, outcome of its outbound calls) to
\* (world, result).
World == [emb |-> emb_initialized, vdb |-> vdb_initialized,
          exists |-> backend_exists, index |-> index]

SetWorld(w) ==
    /\ emb_initialized' = w.emb
    /\ vdb_initialized' = w.vdb
    /\ backend_exists' = w.exists
    /\ index' = w.index

\* ---------------------------------------------------------------- Embedder
\* A text is a sequence of characters (numbers); the provider maps a text to
\* a direction 0..5 of the plane (multiples of 60 degrees), so that cosine
\* scores are exact in tenths.
TextSet == {<<1>>, <<2>>}

RECURSIVE Sum(_)
Sum(s) == IF s = <<>> THEN 0 ELSE Head(s) + Sum(Tail(s))

Embed(text) == Sum(text) % 6

\* self.model.get_embeddings(batch): one embedding per text of the batch,
\* in the order of the batch.
get_embeddings(batch) == [k \in 1..Len(batch) |-> Embed(batch[k])]

\* mutant of initialize: the flag is set although setup failed
initialize_sticky(flag, setupOk) ==
    [initialized |-> TRUE,
     attempted   |-> ~flag,
     raised      |-> ~flag /\ ~setupOk]

\* The `if not self._initialized: try: <setup>; self._initialized = True
\* except: raise` shape shared by both services: setup runs only when the
\* flag is unset, the flag is set only when setup succeeded.
initialize(flag, setupOk) ==
    [initialized |-> flag \/ setupOk,
     attempted   |-> ~flag,
     raised      |-> ~flag /\ ~setupOk]

\* texts[i:i + batch_size] with a 0-based i
Slice(texts, i, batch_size) == SubSeq(texts, i + 1, Min(i + batch_size, Len(texts)))

EbIdle == [pc |-> "idle", texts |-> <<>>, batch_size |-> 1, i |-> 0,
           all_embeddings |-> <<>>, groups |-> <<>>, out |-> <<>>,
           error |-> NoError]

\* generate_embeddings_batch, entry (lines 68-71): the implicit initialize,
\* whose failure leaves the call raised before any group is submitted.
BatchEnter(texts, batch_size, initRaised) ==
    [pc |-> IF initRaised THEN "raised" ELSE "loop",
     texts |-> texts, batch_size |-> batch_size, i |-> 0,
     all_embeddings |-> <<>>, groups |-> <<>>, out |-> <<>>,
     error |-> IF initRaised THEN EmbeddingGenerationError ELSE NoError]

\* mutants of BatchGroupStep: a group's embeddings put in front of the
\* earlier ones; the embeddings of the earlier groups handed back on failure
BatchGroupStep_prepend(f, callOk) ==
    LET batch == Slice(f.texts, f.i, f.batch_size) IN
    IF callOk
    THEN [f EXCEPT !.all_embeddings = get_embeddings(batch) \o f.all_embeddings,
                   !.groups = Append(f.groups, batch),
                   !.i = f.i + f.batch_size]
    ELSE [f EXCEPT !.pc = "raised",
                   !.groups = Append(f.groups, batch),
                   !.out = <<>>,
                   !.error = EmbeddingGenerationError]

BatchGroupStep_partial(f, callOk) ==
    LET batch == Slice(f.texts, f.i, f.batch_size) IN
    IF callOk
    THEN [f EXCEPT !.all_embeddings = f.all_embeddings \o get_embeddings(batch),
                   !.groups = Append(f.groups, batch),
                   !.i = f.i + f.batch_size]
    ELSE [f EXCEPT !.pc = "raised",
                   !.groups = Append(f.groups, batch),
                   !.out = f.all_embeddings,
                   !.error = EmbeddingGenerationError]

\* one iteration of `for i in range(0, len(texts), batch_size)` (lines
\* 75-82) and, when the provider call fails, the except clause (85-86).
\* groups is the log of the groups submitted to the provider.
BatchGroupStep(f, callOk) ==
    LET batch == Slice(f.texts, f.i, f.batch_size) IN
    IF callOk
    THEN [f EXCEPT !.all_embeddings = f.all_embeddings \o get_embeddings(batch),
                   !.groups = Append(f.groups, batch),
                   !.i = f.i + f.batch_size]
    ELSE [f EXCEPT !.pc = "raised",
                   !.groups = Append(f.groups, batch),
                   !.out = <<>>,
                   !.error = EmbeddingGenerationError]

\* return all_embeddings (line 84)
BatchReturn(f) == [f EXCEPT !.pc = "returned", !.out = f.all_embeddings]

\* the whole loop; failAt is the number of the group whose provider call
\* fails (0: none fails)
RECURSIVE RunBatch(_, _)
RunBatch(f, failAt) ==
    IF f.pc # "loop" THEN f
    ELSE IF f.i >= Len(f.texts) THEN BatchReturn(f)
    ELSE RunBatch(BatchGroupStep(f, Len(f.groups) + 1 # failAt), failAt)

generate_embeddings_batch(w, texts, batch_size, setupOk, failAt) ==
    LET init == initialize(w.emb, setupOk)
        f == RunBatch(BatchEnter(texts, batch_size, init.raised), failAt)
    IN  [w |-> [w EXCEPT !.emb = init.initialized],
         raised |-> f.pc = "raised", error |-> f.error, value |-> f.out,
         emb_setup |-> init.attempted, vdb_setup |-> FALSE]

\* generate_embedding(text): implicit initialize, then one provider call
generate_embedding(w, text, setupOk, callOk) ==
    LET init == initialize(w.emb, setupOk)
        failed == init.raised \/ ~callOk
    IN  [w |-> [w EXCEPT !.emb = init.initialized],
         raised |-> failed,
         error |-> IF failed THEN EmbeddingGenerationError ELSE NoError,
         value |-> IF failed THEN <<>> ELSE <<get_embeddings(<<text>>)[1]>>,
         emb_setup |-> init.attempted, vdb_setup |-> FALSE]

\* EmbeddingService.initialize called explicitly
EmbeddingService_initialize(w, setupOk) ==
    LET init == initialize(w.emb, setupOk)
    IN  [w |-> [w EXCEPT !.emb = init.initialized],
         raised |-> init.raised,
         error |-> IF init.raised THEN EmbeddingGenerationError ELSE NoError,
         value |-> <<>>,
         emb_setup |-> init.attempted, vdb_setup |-> FALSE]

\* -------------------------------------------------------------- VectorIndex
\* filter semantics of the backend: exact match on every key of the filter
Matches(metadata, filters) ==
    \A k \in DOMAIN filters : k \in DOMAIN metadata /\ metadata[k] = filters[k]

\* self.index.upsert(vectors=vectors): insert or overwrite by id; of two
\* vectors of one request carrying the same id the later one stays
BackendUpsert(idx, vectors) ==
    LET ids == {vectors[k][1] : k \in 1..Len(vectors)}
        lastOf(id) == CHOOSE k \in 1..Len(vectors) :
                          /\ vectors[k][1] = id
                          /\ \A j \in (k + 1)..Len(vectors) : vectors[j][1] # id
    IN  {v \in idx : v.id \notin ids}
        \cup {[id |-> id, values |-> vectors[lastOf(id)][2],
               metadata |-> vectors[lastOf(id)][3]] : id \in ids}

\* self.index.delete(filter=filters)
BackendDeleteByFilter(idx, filters) == {v \in idx : ~Matches(v.metadata, filters)}

\* self.index.delete(ids=ids)
BackendDeleteIds(idx, ids) == {v \in idx : v.id \notin ids}

\* mutant of VectorDBService_initialize: the index is created anew by every
\* setup, without the existence test of line 28, which empties it
VectorDBService_initialize_recreate(w, setup) ==
    LET setupOk == setup = "ok"
        init == initialize(w.vdb, setupOk)
        created == init.attempted /\ setup # "list"
    IN  [w |-> [w EXCEPT !.vdb = init.initialized,
                         !.exists = w.exists \/ created,
                         !.index = IF created THEN {} ELSE w.index],
         raised |-> init.raised,
         error |-> IF init.raised THEN VectorDBError ELSE NoError,
         value |-> <<>>,
         emb_setup |-> FALSE, vdb_setup |-> init.attempted]

\* VectorDBService.initialize (lines 23-44). setup is what the backend does
\* to the setup calls: "ok", or the call that fails: "list" (list_indexes),
\* "create" (create_index, called only when the index does not exist yet),
\* "connect" (pc.Index).
VectorDBService_initialize(w, setup) ==
    LET createFails == setup = "create" /\ ~w.exists
        setupOk == setup = "ok" \/ (setup = "create" /\ w.exists)
        init == initialize(w.vdb, setupOk)
        created == init.attempted /\ setup # "list" /\ ~createFails
    IN  [w |-> [w EXCEPT !.vdb = init.initialized,
                         !.exists = w.exists \/ created],
         raised |-> init.raised,
         error |-> IF init.raised THEN VectorDBError ELSE NoError,
         value |-> <<>>,
         emb_setup |-> FALSE, vdb_setup |-> init.attempted]

\* the shape shared by upsert_vectors, query_similar, delete_vectors,
\* delete_by_filter and get_index_stats: implicit initialize (its error
\* propagates), then the backend call inside try/except VectorDBError.
\* newIndex and value are the store and the answer if the call succeeds.
VdbCall(w, setup, callOk, newIndex, value) ==
    LET init == VectorDBService_initialize(w, setup) IN
    IF init.raised THEN init
    ELSE IF ~callOk
    THEN [init EXCEPT !.raised = TRUE, !.error = VectorDBError]
    ELSE [init EXCEPT !.w = [init.w EXCEPT !.index = newIndex], !.value = value]

\* similarity of two directions, in tenths: the cosine of the angle between
\* them (0, 60, 120, 180 degrees)
ScoreScale == 10

Cosine(a, b) ==
    LET d == (a - b + 6) % 6 IN
    CASE d = 0 -> ScoreScale
      [] d \in {1, 5} -> 5
      [] d \in {2, 4} -> -5
      [] OTHER -> -ScoreScale

\* self.index.query(vector, top_k, include_metadata, namespace[, filter]):
\* the matching vectors by descending score, at most top_k of them
RECURSIVE TopK(_, _, _)
TopK(S, query_vector, top_k) ==
    IF S = {} \/ top_k = 0 THEN <<>>
    ELSE LET best == CHOOSE v \in S :
                        \A u \in S : Cosine(query_vector, v.values) >= Cosine(query_vector, u.values)
         IN  <<[id |-> best.id, score |-> Cosine(query_vector, best.values),
                metadata |-> best.metadata]>>
             \o TopK(S \ {best}, query_vector, top_k - 1)

BackendQuery(idx, query_vector, top_k, filters) ==
    TopK({v \in idx : Matches(v.metadata, filters)}, query_vector, top_k)

\* metadata.get(key, default)
Get(metadata, key, default) == IF key \in DOMAIN metadata THEN metadata[key] ELSE default

\* SimilaritySearchResult(...) of one match (lines 111-120); the model
\* validates similarity_score with Field(ge=0, le=1)
SimilaritySearchResult(match) ==
    [content_id |-> Get(match.metadata, "content_id", ""),
     chunk_id |-> match.id,
     similarity_score |-> match.score,
     text |-> Get(match.metadata, "text", <<>>),
     metadata |-> match.metadata]

ScoreValid(score) == score >= 0 /\ score <= ScoreScale

\* mutant of query_similar: no implicit initialize; on a service that was
\* never initialized self.index is None and the call fails
query_similar_noinit(w, query_vector, top_k, filters, setup, callOk) ==
    LET c == VdbCall(w, setup, callOk /\ w.vdb, w.index,
                     BackendQuery(w.index, query_vector, top_k, filters))
    IN  IF c.raised THEN c
        ELSE IF \E k \in 1..Len(c.value) : ~ScoreValid(c.value[k].score)
        THEN [c EXCEPT !.raised = TRUE, !.error = VectorDBError, !.value = <<>>]
        ELSE [c EXCEPT !.value = [k \in 1..Len(c.value) |-> SimilaritySearchResult(c.value[k])]]

\* mutant of query_similar: the matches whose score is out of range are
\* dropped and the others returned
query_similar_lenient(w, query_vector, top_k, filters, setup, callOk) ==
    LET c == VdbCall(w, setup, callOk, w.index,
                     BackendQuery(w.index, query_vector, top_k, filters))
        valid == SelectSeq(c.value, LAMBDA m : ScoreValid(m.score))
    IN  IF c.raised THEN c
        ELSE [c EXCEPT !.value = [k \in 1..Len(valid) |-> SimilaritySearchResult(valid[k])]]

\* VectorDBService.query_similar, lines 92-124; an empty filters map stands
\* for filters=None (`if filters:`)
query_similar(w, query_vector, top_k, filters, setup, callOk) ==
    LET c == VdbCall(w, setup, callOk, w.index,
                     BackendQuery(w.index, query_vector, top_k, filters))
    IN  IF c.raised THEN c
        ELSE IF \E k \in 1..Len(c.value) : ~ScoreValid(c.value[k].score)
        THEN [c EXCEPT !.raised = TRUE, !.error = VectorDBError, !.value = <<>>]
        ELSE [c EXCEPT !.value = [k \in 1..Len(c.value) |-> SimilaritySearchResult(c.value[k])]]

upsert_vectors(w, vectors, setup, callOk) ==
    VdbCall(w, setup, callOk, BackendUpsert(w.index, vectors), <<>>)

delete_vectors(w, ids, setup, callOk) ==
    VdbCall(w, setup, callOk, BackendDeleteIds(w.index, ids), <<>>)

\* mutant of delete_by_filter: the filter is not passed on and the backend
\* deletes every vector
delete_by_filter_all(w, filters, setup, callOk) ==
    VdbCall(w, setup, callOk, {}, <<>>)

\* mutant of delete_by_filter: the backend is called but removes nothing
delete_by_filter_none(w, filters, setup, callOk) ==
    VdbCall(w, setup, callOk, w.index, <<>>)

delete_by_filter(w, filters, setup, callOk) ==
    VdbCall(w, setup, callOk, BackendDeleteByFilter(w.index, filters), <<>>)

get_index_stats(w, setup, callOk) ==
    VdbCall(w, setup, callOk, w.index, <<Cardinality(w.index)>>)

\* ------------------------------------------------------------------ Chunker
\* The separator the splitter cuts on first ("\n\n"); a body is written as
\* paragraphs joined by it, each paragraph as long as a chunk may be, so
\* that no two paragraphs are merged into one chunk.
Sep == 0

\* splitter.split_text(text): the non-empty pieces between separators
RECURSIVE SplitFrom(_, _, _)
SplitFrom(text, k, piece) ==
    IF k > Len(text)
    THEN IF piece = <<>> THEN <<>> ELSE <<piece>>
    ELSE IF text[k] = Sep
         THEN (IF piece = <<>> THEN <<>> ELSE <<piece>>) \o SplitFrom(text, k + 1, <<>>)
         ELSE SplitFrom(text, k + 1, Append(piece, text[k]))

chunk_text(text) == SplitFrom(text, 1, <<>>)

\* f"{content_item.id}_chunk_{idx}"
chunk_id(content_id, idx) == content_id \o "_chunk_" \o ToString(idx)

\* {f"content_{k}": v for k, v in content_item.metadata.items()}
ExtensionFields(metadata) ==
    LET keys == DOMAIN metadata
        prefixed(k) == "content_" \o k
    IN  [p \in {prefixed(k) : k \in keys} |->
            metadata[CHOOSE k \in keys : prefixed(k) = p]]

\* dict.update: the entries of upd replace those of base
DictUpdate(base, upd) ==
    [k \in DOMAIN base \cup DOMAIN upd |-> IF k \in DOMAIN upd THEN upd[k] ELSE base[k]]

\* chunk_content_item, lines 81-112 (idx is 0-based)
ChunkData(content_item, chunks, idx) ==
    LET base == [chunk_id |-> chunk_id(content_item.id, idx),
                 content_id |-> content_item.id,
                 text |-> chunks[idx + 1],
                 chunk_index |-> idx,
                 total_chunks |-> Len(chunks),
                 subject |-> content_item.subject,
                 type |-> content_item.type,
                 chapter |-> content_item.chapter,
                 topic_id |-> content_item.topic_id,
                 difficulty |-> content_item.difficulty]
    IN  [id |-> chunk_id(content_item.id, idx),
         text |-> chunks[idx + 1],
         metadata |-> DictUpdate(base, ExtensionFields(content_item.metadata))]

chunk_content_item(content_item) ==
    LET chunks == chunk_text(content_item.content_text)
    IN  [k \in 1..Len(chunks) |-> ChunkData(content_item, chunks, k - 1)]

\* ------------------------------------------------------------------ Indexer
IndexerBatchSize == 10

\* What the environment does to the outbound calls of one indexer call: "ok",
\* or the first step that fails.
IndexEnv == {"ok", "chunking", "emb_setup", "embed",
             "vdb_list", "vdb_create", "vdb_connect", "upsert"}

DeleteEnv == {"ok", "vdb_list", "vdb_create", "vdb_connect", "delete"}

ReindexEnv == IndexEnv \cup DeleteEnv

VdbSetupOf(env) ==
    CASE env = "vdb_list" -> "list"
      [] env = "vdb_create" -> "create"
      [] env = "vdb_connect" -> "connect"
      [] OTHER -> "ok"

\* `except Exception as e: raise RAGPipelineError(f"...: {str(e)}")`
Raise(w, cause, es, vs) ==
    [w |-> w, raised |-> TRUE, error |-> RAGPipelineError(cause), cause |-> cause,
     value |-> <<>>, emb_setup |-> es, vdb_setup |-> vs]

Return(w, value, es, vs) ==
    [w |-> w, raised |-> FALSE, error |-> NoError, cause |-> NoError,
     value |-> value, emb_setup |-> es, vdb_setup |-> vs]

\* mutant of Zip: the embeddings are paired with the chunks in reverse order
Zip_reversed(chunks, embeddings) ==
    LET n == Min(Len(chunks), Len(embeddings)) IN
    [k \in 1..n |-> <<chunks[k].id, embeddings[n + 1 - k], chunks[k].metadata>>]

\* zip(chunks, embeddings)
Zip(chunks, embeddings) ==
    [k \in 1..Min(Len(chunks), Len(embeddings)) |->
        <<chunks[k].id, embeddings[k], chunks[k].metadata>>]

\* steps 2-4 of index_content_item (lines 56-81): embed the chunk texts,
\* pair them with the chunks, upsert, report
IndexChunks(w, content_item, chunks, env) ==
    LET chunk_texts == [k \in 1..Len(chunks) |-> chunks[k].text]
        e == generate_embeddings_batch(w, chunk_texts, IndexerBatchSize,
                                       env # "emb_setup",
                                       IF env = "embed" THEN 1 ELSE 0)
    IN
    IF e.raised THEN Raise(e.w, e.error, e.emb_setup, FALSE)
    ELSE
    LET u == upsert_vectors(e.w, Zip(chunks, e.value), VdbSetupOf(env), env # "upsert") IN
    IF u.raised THEN Raise(u.w, u.error, e.emb_setup, u.vdb_setup)
    ELSE Return(u.w, [content_id |-> content_item.id,
                      chunks_created |-> Len(chunks),
                      embeddings_generated |-> Len(e.value),
                      success |-> TRUE,
                      message |-> "Successfully indexed chunks",
                      reindexed |-> FALSE], e.emb_setup, u.vdb_setup)

\* mutant of index_content_item: the `if not chunks` guard is missing
index_content_item_noguard(w, content_item, env) ==
    IF env = "chunking" THEN Raise(w, ChunkingError, FALSE, FALSE)
    ELSE IndexChunks(w, content_item, chunk_content_item(content_item), env)

\* ContentIndexer.index_content_item, lines 39-84
index_content_item(w, content_item, env) ==
    IF env = "chunking" THEN Raise(w, ChunkingError, FALSE, FALSE)
    ELSE
    LET chunks == chunk_content_item(content_item) IN
    IF chunks = <<>>
    THEN Return(w, [content_id |-> content_item.id, chunks_created |-> 0,
                    embeddings_generated |-> 0, success |-> FALSE,
                    message |-> "No chunks created from content",
                    reindexed |-> FALSE], FALSE, FALSE)
    ELSE IndexChunks(w, content_item, chunks, env)

\* ContentIndexer.reindex_content, lines 157-174
reindex_content(w, content_id, content_item, env) ==
    LET d == delete_by_filter(w, [content_id |-> content_id],
                              VdbSetupOf(env), env # "delete") IN
    IF d.raised THEN Raise(d.w, d.error, FALSE, d.vdb_setup)
    ELSE
    LET r == index_content_item(d.w, content_item, env) IN
    IF r.raised THEN Raise(r.w, r.error, r.emb_setup, d.vdb_setup)
    ELSE Return(r.w, [r.value EXCEPT !.reindexed = TRUE], r.emb_setup, d.vdb_setup)

\* ContentIndexer.delete_content_index, lines 186-198
delete_content_index(w, content_id, env) ==
    LET d == delete_by_filter(w, [content_id |-> content_id],
                              VdbSetupOf(env), env # "delete") IN
    IF d.raised THEN Raise(d.w, d.error, FALSE, d.vdb_setup)
    ELSE Return(d.w, [content_id |-> content_id, success |-> TRUE], FALSE, d.vdb_setup)

\* ---- the stepwise generate_embeddings_batch call
EmbBatchStart(texts, batch_size, setupOk) ==
    LET init == initialize(emb_initialized, setupOk) IN
    /\ eb.pc \in {"idle", "returned", "raised"}
    /\ emb_initialized' = init.initialized
    /\ eb' = BatchEnter(texts, batch_size, init.raised)
    /\ UNCHANGED <<vdb_initialized, backend_exists, index, last, bt, rq, gemini_initialized>>

EmbBatchGroup(callOk) ==
    /\ eb.pc = "loop"
    /\ eb.i < Len(eb.texts)
    /\ eb' = BatchGroupStep(eb, callOk)
    /\ UNCHANGED <<emb_initialized, vdb_initialized, backend_exists, index, last, bt, rq, gemini_initialized>>

EmbBatchReturn ==
    /\ eb.pc = "loop"
    /\ eb.i >= Len(eb.texts)
    /\ eb' = BatchReturn(eb)
    /\ UNCHANGED <<emb_initialized, vdb_initialized, backend_exists, index, last, bt, rq, gemini_initialized>>

InitCommon ==
    /\ emb_initialized = FALSE
    /\ vdb_initialized = FALSE
    /\ backend_exists = FALSE
    /\ index = {}
    /\ last = Idle
    /\ eb = EbIdle
    /\ bt = Idle
    /\ rq = Idle
    /\ gemini_initialized = FALSE

InitEmbed == InitCommon

NextEmbed ==
    \/ \E texts \in SeqsUpTo(TextSet, MaxTexts), bs \in 1..MaxBatchSize, s \in BOOLEAN :
          EmbBatchStart(texts, bs, s)
    \/ \E ok \in BOOLEAN : EmbBatchGroup(ok)
    \/ EmbBatchReturn

SpecEmbed == InitEmbed /\ [][NextEmbed]_vars

\* ------------------------------------------------- the indexer's operations
\* the k-th of n paragraphs
Paragraph(n, k) == <<n, k>>

\* a body of n paragraphs joined by the separator
RECURSIVE BodyOf(_, _)
BodyOf(n, k) ==
    IF k > n THEN <<>>
    ELSE IF k = n THEN Paragraph(n, k)
    ELSE Paragraph(n, k) \o <<Sep>> \o BodyOf(n, k + 1)

NoMetadata == [k \in {} |-> ""]

ContentItem(id, content_text, metadata) ==
    [id |-> id, type |-> "ncert", subject |-> "physics", chapter |-> "ch1",
     topic_id |-> "", difficulty |-> "", content_text |-> content_text,
     metadata |-> metadata]

\* the content items handed to the indexer: every length of body for doc1,
\* with and without an extension field named "id", and one item doc2
Items ==
    {ContentItem("doc1", BodyOf(n, 1), md) :
        n \in 0..MaxChunks, md \in {NoMetadata, [id |-> "doc2"]}}
    \cup {ContentItem("doc2", BodyOf(1, 1), NoMetadata)}

ContentIds == {"doc1", "doc2"}

\* what a completed call leaves to look at: its arguments and its result
Outcome(op, content_id, content_item, env, r) ==
    [op |-> op, content_id |-> content_id, item |-> content_item, env |-> env,
     raised |-> r.raised, error |-> r.error, cause |-> r.cause, value |-> r.value,
     emb_setup |-> r.emb_setup, vdb_setup |-> r.vdb_setup]

NoBatch == bt.op = "none"

IndexContentItem(content_item, env) ==
    /\ NoBatch
    /\ \E r \in {index_content_item(World, content_item, env)} :
          /\ SetWorld(r.w)
          /\ last' = Outcome("index", content_item.id, content_item, env, r)
    /\ UNCHANGED <<eb, bt, rq, gemini_initialized>>

ReindexContent(content_id, content_item, env) ==
    /\ NoBatch
    /\ \E r \in {reindex_content(World, content_id, content_item, env)} :
          /\ SetWorld(r.w)
          /\ last' = Outcome("reindex", content_id, content_item, env, r)
    /\ UNCHANGED <<eb, bt, rq, gemini_initialized>>

DeleteContentIndex(content_id, env) ==
    /\ NoBatch
    /\ \E r \in {delete_content_index(World, content_id, env)} :
          /\ SetWorld(r.w)
          /\ last' = Outcome("delete", content_id, ContentItem(content_id, <<>>, NoMetadata), env, r)
    /\ UNCHANGED <<eb, bt, rq, gemini_initialized>>

InitIndex == InitCommon

NextIndex ==
    \/ \E it \in Items, env \in IndexEnv : IndexContentItem(it, env)
    \/ \E c \in ContentIds, it \in Items, env \in ReindexEnv : ReindexContent(c, it, env)
    \/ \E c \in ContentIds, env \in DeleteEnv : DeleteContentIndex(c, env)

SpecIndex == InitIndex /\ [][NextIndex]_vars

RECURSIVE Flatten(_)
Flatten(ss) == IF ss = <<>> THEN <<>> ELSE Head(ss) \o Flatten(Tail(ss))

\* C8: a generate_embeddings_batch call that returns has submitted the texts
\* as consecutive groups, in input order, every group of at most batch_size
\* texts and every group but the last of exactly batch_size, and returns one
\* vector per input text, the k-th being the embedding of the k-th text.
C8_EmbedBatchOrder ==
    eb.pc = "returned" =>
        /\ Len(eb.out) = Len(eb.texts)
        /\ \A k \in 1..Len(eb.texts) : eb.out[k] = Embed(eb.texts[k])
        /\ Flatten(eb.groups) = eb.texts
        /\ \A g \in 1..Len(eb.groups) :
              /\ Len(eb.groups[g]) >= 1
              /\ Len(eb.groups[g]) <= eb.batch_size
              /\ g < Len(eb.groups) => Len(eb.groups[g]) = eb.batch_size

\* a returned call of several groups, the last one short, over distinct texts
C8_Witness ==
    /\ eb.pc = "returned"
    /\ Len(eb.groups) >= 2
    /\ Len(eb.groups[Len(eb.groups)]) < eb.batch_size
    /\ Cardinality(Range(eb.texts)) >= 2
    /\ eb.out # <<>>

\* C9: when the provider call of any group fails the call is raised with
\* EmbeddingGenerationError, hands back no vector (not even those of the
\* groups already embedded), and the failing group is the last one submitted.
C9_BatchFailsWhole ==
    /\ eb.error # NoError =>
          /\ eb.pc = "raised"
          /\ eb.error = EmbeddingGenerationError
          /\ eb.out = <<>>
    /\ eb.pc = "raised" /\ eb.groups # <<>> =>
          /\ Len(eb.all_embeddings) = eb.i
          /\ Len(eb.groups) = (eb.i \div eb.batch_size) + 1
          /\ eb.groups[Len(eb.groups)] = Slice(eb.texts, eb.i, eb.batch_size)

\* a call that failed in a middle group: vectors were already gathered and
\* groups were still to come
C9_Witness ==
    /\ eb.pc = "raised"
    /\ Len(eb.all_embeddings) > 0
    /\ eb.i + eb.batch_size < Len(eb.texts)

\* ------------------------------------------------------ index_content_batch
\* lines 104-107: the locals of a call; log is the history of the items'
\* outcomes (TRUE: index_content_item raised), kept for the properties
BatchEnterItems(content_items) ==
    [op |-> "batch", pc |-> "loop", content_items |-> content_items, k |-> 0,
     results |-> <<>>, total_chunks |-> 0, total_embeddings |-> 0,
     failed_items |-> <<>>, report |-> <<>>, log |-> <<>>]

\* mutant of BatchItemStep: a failing item ends the loop
BatchItemStep_abort(f, content_item, r) ==
    IF r.raised
    THEN [f EXCEPT !.k = Len(f.content_items),
                   !.failed_items = Append(f.failed_items,
                        [content_id |-> content_item.id, error |-> r.error])]
    ELSE [f EXCEPT !.k = f.k + 1,
                   !.results = Append(f.results, r.value),
                   !.total_chunks = f.total_chunks + r.value.chunks_created,
                   !.total_embeddings = f.total_embeddings + r.value.embeddings_generated]

\* one iteration of `for content_item in content_items` (lines 109-123),
\* given r, the outcome of index_content_item for the item
BatchItemStep(f, content_item, r) ==
    IF r.raised
    THEN [f EXCEPT !.k = f.k + 1,
                   !.failed_items = Append(f.failed_items,
                        [content_id |-> content_item.id, error |-> r.error])]
    ELSE [f EXCEPT !.k = f.k + 1,
                   !.results = Append(f.results, r.value),
                   !.total_chunks = f.total_chunks + r.value.chunks_created,
                   !.total_embeddings = f.total_embeddings + r.value.embeddings_generated]

\* lines 125-133
BatchReport(f) ==
    [total_items |-> Len(f.content_items),
     successful_items |-> Len(f.results),
     failed_items |-> Len(f.failed_items),
     total_chunks |-> f.total_chunks,
     total_embeddings |-> f.total_embeddings,
     failures |-> f.failed_items,
     success |-> Len(f.failed_items) = 0]

IndexBatchStart(content_items) ==
    /\ bt.op = "none"
    /\ bt' = BatchEnterItems(content_items)
    /\ UNCHANGED <<emb_initialized, vdb_initialized, backend_exists, index, last, eb, rq, gemini_initialized>>

IndexBatchItem(env) ==
    /\ bt.op = "batch" /\ bt.pc = "loop"
    /\ bt.k < Len(bt.content_items)
    /\ \E r \in {index_content_item(World, bt.content_items[bt.k + 1], env)} :
          /\ SetWorld(r.w)
          /\ bt' = [BatchItemStep(bt, bt.content_items[bt.k + 1], r)
                       EXCEPT !.log = Append(bt.log, r.raised)]
          /\ last' = Outcome("index", bt.content_items[bt.k + 1].id,
                             bt.content_items[bt.k + 1], env, r)
    /\ UNCHANGED <<eb, rq, gemini_initialized>>

IndexBatchReturn ==
    /\ bt.op = "batch" /\ bt.pc = "loop"
    /\ bt.k >= Len(bt.content_items)
    /\ bt' = [bt EXCEPT !.pc = "returned", !.report = BatchReport(bt)]
    /\ UNCHANGED <<emb_initialized, vdb_initialized, backend_exists, index, last, eb, rq, gemini_initialized>>

\* the store before the batch: empty, or holding an earlier, longest version
\* of doc1
SeedIndexes ==
    {{}, index_content_item([emb |-> FALSE, vdb |-> FALSE, exists |-> FALSE, index |-> {}],
                            ContentItem("doc1", BodyOf(MaxChunks, 1), NoMetadata),
                            "ok").w.index}

InitBatch ==
    /\ emb_initialized = FALSE
    /\ vdb_initialized = FALSE
    /\ backend_exists \in BOOLEAN
    /\ index \in SeedIndexes
    /\ backend_exists \/ index = {}
    /\ last = Idle
    /\ eb = EbIdle
    /\ bt = Idle
    /\ rq = Idle
    /\ gemini_initialized = FALSE

NextBatch ==
    \/ \E items \in SeqsUpTo(Items, MaxBatchItems) : IndexBatchStart(items)
    \/ \E env \in IndexEnv : IndexBatchItem(env)
    \/ IndexBatchReturn

SpecBatch == InitBatch /\ [][NextBatch]_vars

\* ------------------------------------------- the services called one by one
\* the vectors the indexer builds for an item
VectorsOf(content_item) ==
    LET chunks == chunk_content_item(content_item)
    IN  Zip(chunks, get_embeddings([k \in 1..Len(chunks) |-> chunks[k].text]))

SetupOutcomes == {"ok", "list", "create", "connect"}

\* whether the setup of VectorDBService.initialize goes through
SetupSucceeds(w, setup) == setup = "ok" \/ (setup = "create" /\ w.exists)

\* what a completed service call leaves to look at: what the backend did to
\* its setup and to its call, its argument (the query vector of a
\* query_similar, 0 otherwise) and its result
ServiceOutcome(svc, op, setupOk, callOk, arg, r) ==
    [op |-> op, svc |-> svc, setup_ok |-> setupOk, call_ok |-> callOk, arg |-> arg,
     raised |-> r.raised,
     error |-> r.error, value |-> r.value,
     emb_setup |-> r.emb_setup, vdb_setup |-> r.vdb_setup]

ServiceCall(svc, op, setupOk, callOk, arg, r) ==
    /\ SetWorld(r.w)
    /\ last' = ServiceOutcome(svc, op, setupOk, callOk, arg, r)
    /\ UNCHANGED <<eb, bt, rq, gemini_initialized>>

EmbInitialize(setupOk) ==
    \E r \in {EmbeddingService_initialize(World, setupOk)} :
        ServiceCall("emb", "initialize", setupOk, TRUE, 0, r)

GenerateEmbedding(text, setupOk, callOk) ==
    \E r \in {generate_embedding(World, text, setupOk, callOk)} :
        ServiceCall("emb", "generate_embedding", setupOk, callOk, 0, r)

GenerateEmbeddingsBatch(texts, batch_size, setupOk, failAt) ==
    \E r \in {generate_embeddings_batch(World, texts, batch_size, setupOk, failAt)} :
        ServiceCall("emb", "generate_embeddings_batch", setupOk, failAt = 0, 0, r)

VdbInitialize(setup) ==
    \E r \in {VectorDBService_initialize(World, setup)} :
        ServiceCall("vdb", "initialize", SetupSucceeds(World, setup), TRUE, 0, r)

UpsertVectors(vectors, setup, callOk) ==
    \E r \in {upsert_vectors(World, vectors, setup, callOk)} :
        ServiceCall("vdb", "upsert_vectors", SetupSucceeds(World, setup), callOk, 0, r)

QuerySimilar(query_vector, top_k, filters, setup, callOk) ==
    \E r \in {query_similar(World, query_vector, top_k, filters, setup, callOk)} :
        ServiceCall("vdb", "query_similar", SetupSucceeds(World, setup), callOk, query_vector, r)

DeleteVectors(ids, setup, callOk) ==
    \E r \in {delete_vectors(World, ids, setup, callOk)} :
        ServiceCall("vdb", "delete_vectors", SetupSucceeds(World, setup), callOk, 0, r)

DeleteByFilter(filters, setup, callOk) ==
    \E r \in {delete_by_filter(World, filters, setup, callOk)} :
        ServiceCall("vdb", "delete_by_filter", SetupSucceeds(World, setup), callOk, 0, r)

GetIndexStats(setup, callOk) ==
    \E r \in {get_index_stats(World, setup, callOk)} :
        ServiceCall("vdb", "get_index_stats", SetupSucceeds(World, setup), callOk, 0, r)

\* the process starts anew: the module-level service objects are built
\* again (_initialized = False) while the backend keeps its vectors
Restart ==
    /\ emb_initialized \/ vdb_initialized
    /\ emb_initialized' = FALSE
    /\ vdb_initialized' = FALSE
    /\ last' = [op |-> "restart", svc |-> "process", setup_ok |-> FALSE,
                call_ok |-> TRUE, arg |-> 0, raised |-> FALSE,
                error |-> NoError, value |-> <<>>, emb_setup |-> FALSE, vdb_setup |-> FALSE]
    /\ UNCHANGED <<backend_exists, index, eb, bt, rq, gemini_initialized>>

InitServices == InitCommon

NextServices ==
    \/ \E s \in BOOLEAN : EmbInitialize(s)
    \/ \E t \in TextSet, s \in BOOLEAN, c \in BOOLEAN : GenerateEmbedding(t, s, c)
    \/ \E ts \in {<<>>, <<<<1>>, <<2>>>>}, s \in BOOLEAN, f \in 0..1 :
          GenerateEmbeddingsBatch(ts, 1, s, f)
    \/ \E s \in SetupOutcomes : VdbInitialize(s)
    \/ \E it \in Items, s \in SetupOutcomes, c \in BOOLEAN :
          UpsertVectors(VectorsOf(it), s, c)
    \/ \E q \in 0..5, s \in SetupOutcomes, c \in BOOLEAN :
          QuerySimilar(q, 1, NoMetadata, s, c)
    \/ \E s \in SetupOutcomes, c \in BOOLEAN :
          DeleteVectors({chunk_id("doc1", 0)}, s, c)
    \/ \E cid \in ContentIds, s \in SetupOutcomes, c \in BOOLEAN :
          DeleteByFilter([content_id |-> cid], s, c)
    \/ \E s \in SetupOutcomes, c \in BOOLEAN : GetIndexStats(s, c)
    \/ Restart

SpecServices == InitServices /\ [][NextServices]_vars

\* ---------------------------------------------------------- RAGService.query
NoSubject == ""

\* RAGQuery(query, subject, top_k, confidence_threshold, filters); the
\* threshold is in tenths
RAGQuery(query, subject, top_k, confidence_threshold, filters) ==
    [query |-> query, subject |-> subject, top_k |-> top_k,
     confidence_threshold |-> confidence_threshold, filters |-> filters]

\* mutant of BuildFilters: a subject entry of the caller's filters is kept
BuildFilters_keep(query) ==
    IF query.subject # NoSubject
    THEN DictUpdate([subject |-> query.subject], query.filters)
    ELSE query.filters

\* lines 68-70: a copy of query.filters with the subject constraint added
BuildFilters(query) ==
    IF query.subject # NoSubject
    THEN DictUpdate(query.filters, [subject |-> query.subject])
    ELSE query.filters

\* line 91: sum(r.similarity_score for r in search_results) / len(...), kept
\* as the fraction num/den of tenths
RECURSIVE SumScores(_)
SumScores(results) ==
    IF results = <<>> THEN 0 ELSE Head(results).similarity_score + SumScores(Tail(results))

AvgConfidence(search_results) ==
    [num |-> SumScores(search_results), den |-> Len(search_results)]

\* mutant of BelowThreshold: a mean equal to the threshold counts as below
BelowThreshold_closed(avg, confidence_threshold) ==
    avg.num <= confidence_threshold * avg.den

\* line 94: avg_confidence < query.confidence_threshold
BelowThreshold(avg, confidence_threshold) == avg.num < confidence_threshold * avg.den

\* Field(ge=0, le=1) on RAGResponse.confidence and RAGContext.similarity_score
ConfidenceValid(c) == c.num >= 0 /\ c.num <= ScoreScale * c.den

\* lines 81-88
NoResultsResponse(query) ==
    [query |-> query.query, generated_text |-> <<"no_relevant_information">>,
     contexts |-> <<>>, confidence |-> [num |-> 0, den |-> 1], sources |-> <<>>,
     metadata |-> [reason |-> "no_results"]]

\* mutant of LowConfidenceResponse: the computed confidence is dropped
LowConfidenceResponse_zero(query, avg) ==
    [query |-> query.query, generated_text |-> <<"not_confident_enough">>,
     contexts |-> <<>>, confidence |-> [num |-> 0, den |-> 1], sources |-> <<>>,
     metadata |-> [reason |-> "low_confidence",
                   threshold |-> query.confidence_threshold]]

\* lines 95-102
LowConfidenceResponse(query, avg) ==
    [query |-> query.query, generated_text |-> <<"not_confident_enough">>,
     contexts |-> <<>>, confidence |-> avg, sources |-> <<>>,
     metadata |-> [reason |-> "low_confidence",
                   threshold |-> query.confidence_threshold]]

\* lines 111-119
RAGContext(result, query) ==
    [chunk_id |-> result.chunk_id, content_id |-> result.content_id,
     text |-> result.text, similarity_score |-> result.similarity_score,
     metadata |-> result.metadata,
     source_type |-> Get(result.metadata, "type", "unknown"),
     subject |-> query.subject]

\* lines 129-135
Source(result) ==
    [id |-> result.content_id,
     type |-> Get(result.metadata, "type", "unknown"),
     subject |-> Get(result.metadata, "subject", ""),
     chapter |-> Get(result.metadata, "chapter", ""),
     similarity |-> result.similarity_score]

\* lines 123-126, 137, 142-145: the prompt handed to the model
Prompt(query, search_results) ==
    [context |-> [k \in 1..Len(search_results) |->
                     [source |-> k,
                      type |-> Get(search_results[k].metadata, "type", "content"),
                      chapter |-> Get(search_results[k].metadata, "chapter", "N/A"),
                      text |-> search_results[k].text]],
     query |-> query.query]

\* response.text of the generation provider for a prompt; gen = "empty": the
\* provider answers with no text
GeneratedText(prompt, gen) ==
    IF gen = "empty" THEN <<"could_not_generate">> ELSE <<"answer", prompt.query, Len(prompt.context)>>

\* lines 153-163
GeneratedResponse(query, search_results, avg, gen) ==
    [query |-> query.query,
     generated_text |-> GeneratedText(Prompt(query, search_results), gen),
     contexts |-> [k \in 1..Len(search_results) |-> RAGContext(search_results[k], query)],
     confidence |-> avg,
     sources |-> [k \in 1..Len(search_results) |-> Source(search_results[k])],
     metadata |-> [model |-> "gemini-1.5-pro",
                   chunks_retrieved |-> Len(search_results)]]

\* an exception of the generation provider, and a pydantic validation error
ProviderException == [code |-> "PROVIDER_EXCEPTION", retryable |-> TRUE]

ValidationFailure == [code |-> "VALIDATION_ERROR", retryable |-> FALSE]

NotComputed == [num |-> -1, den |-> 0]

\* the frame of a query call; calls is the log of the outbound calls made,
\* trace the log of the phases entered; h_retrieved, h_results and h_failed
\* are history: whether the vector index has answered, what it answered, and
\* whether an outbound call of this query has failed
QueryEnter(query) ==
    [op |-> "query", pc |-> "EMBEDDING", query |-> query,
     query_embedding |-> <<>>, filters |-> NoMetadata, search_results |-> <<>>,
     avg_confidence |-> NotComputed, response |-> <<>>,
     raised |-> FALSE, error |-> NoError, cause |-> NoError,
     calls |-> <<>>, trace |-> <<"EMBEDDING">>,
     h_retrieved |-> FALSE, h_results |-> <<>>, h_failed |-> FALSE]

\* `except Exception as e: raise RAGPipelineError(...)` (lines 165-166)
QueryRaise(f, cause) ==
    [f EXCEPT !.pc = "DONE", !.raised = TRUE, !.error = RAGPipelineError(cause),
              !.cause = cause, !.trace = Append(f.trace, "DONE")]

QueryReturn(f, response) ==
    IF ConfidenceValid(response.confidence)
       /\ \A k \in 1..Len(response.contexts) :
             ScoreValid(response.contexts[k].similarity_score)
    THEN [f EXCEPT !.pc = "DONE", !.response = response,
                   !.trace = Append(f.trace, "DONE")]
    ELSE QueryRaise(f, ValidationFailure)

\* step 1 (lines 63-65), given e, the outcome of generate_embedding
EmbedStep(f, e) ==
    LET g == [f EXCEPT !.calls = Append(f.calls, "embed")] IN
    IF e.raised THEN QueryRaise(g, e.error)
    ELSE [g EXCEPT !.pc = "RETRIEVING", !.query_embedding = e.value,
                   !.trace = Append(f.trace, "RETRIEVING")]

\* mutant of Branch: the empty result set is not told apart
Branch_noempty(search_results, query) ==
    IF BelowThreshold(AvgConfidence(search_results), query.confidence_threshold)
    THEN "LOW_CONFIDENCE"
    ELSE "GENERATING"

\* the branch taken after retrieval (lines 80 and 94)
Branch(search_results, query) ==
    IF search_results = <<>> THEN "NO_RESULTS"
    ELSE IF BelowThreshold(AvgConfidence(search_results), query.confidence_threshold)
    THEN "LOW_CONFIDENCE"
    ELSE "GENERATING"

\* steps 2-5 up to the branch (lines 68-94), given r, the outcome of
\* query_similar
RetrieveStep(f, r) ==
    LET g == [f EXCEPT !.calls = Append(f.calls, "vector_query"),
                       !.filters = BuildFilters(f.query)] IN
    IF r.raised THEN QueryRaise(g, r.error)
    ELSE [g EXCEPT !.pc = Branch(r.value, f.query),
                   !.search_results = r.value,
                   !.avg_confidence = IF r.value = <<>> THEN NotComputed
                                      ELSE AvgConfidence(r.value),
                   !.trace = Append(f.trace, Branch(r.value, f.query))]

\* lines 81-88
NoResultsStep(f) == QueryReturn(f, NoResultsResponse(f.query))

\* mutants of LowConfidenceStep: the weak evidence is sent to the generation
\* provider after all; low confidence is reported as an error
LowConfidenceStep_generates(f) ==
    QueryReturn([f EXCEPT !.calls = Append(f.calls, "generate")],
                GeneratedResponse(f.query, f.search_results, f.avg_confidence, "ok"))

LowConfidenceStep_raises(f) == QueryRaise(f, ValidationFailure)

\* lines 95-102
LowConfidenceStep(f) == QueryReturn(f, LowConfidenceResponse(f.query, f.avg_confidence))

\* steps 6-8 (lines 105-163); gen is what the generation provider does:
\* "ok", "empty" or "fail"
GenerateStep(f, gen) ==
    LET g == [f EXCEPT !.calls = Append(f.calls, "generate")] IN
    IF gen = "fail" THEN QueryRaise(g, ProviderException)
    ELSE QueryReturn(g, GeneratedResponse(f.query, f.search_results, f.avg_confidence, gen))

QueryStart(query) ==
    /\ rq.op = "none" \/ rq.pc = "DONE"
    /\ rq' = QueryEnter(query)
    /\ UNCHANGED <<emb_initialized, vdb_initialized, backend_exists, index, last, eb, bt,
                   gemini_initialized>>

QueryEmbed(setupOk, callOk) ==
    /\ rq.op = "query" /\ rq.pc = "EMBEDDING"
    /\ \E e \in {generate_embedding(World, rq.query.query, setupOk, callOk)} :
          /\ SetWorld(e.w)
          /\ rq' = [EmbedStep(rq, e) EXCEPT !.h_failed = e.raised]
    /\ UNCHANGED <<last, eb, bt, gemini_initialized>>

QueryRetrieve(setup, callOk) ==
    /\ rq.op = "query" /\ rq.pc = "RETRIEVING"
    /\ \E r \in {query_similar(World, rq.query_embedding[1], rq.query.top_k,
                               BuildFilters(rq.query), setup, callOk)} :
          /\ SetWorld(r.w)
          /\ rq' = [RetrieveStep(rq, r) EXCEPT !.h_failed = r.raised,
                                              !.h_retrieved = ~r.raised,
                                              !.h_results = r.value]
    /\ UNCHANGED <<last, eb, bt, gemini_initialized>>

QueryNoResults ==
    /\ rq.op = "query" /\ rq.pc = "NO_RESULTS"
    /\ rq' = NoResultsStep(rq)
    /\ UNCHANGED <<emb_initialized, vdb_initialized, backend_exists, index, last, eb, bt,
                   gemini_initialized>>

QueryLowConfidence ==
    /\ rq.op = "query" /\ rq.pc = "LOW_CONFIDENCE"
    /\ rq' = LowConfidenceStep(rq)
    /\ UNCHANGED <<emb_initialized, vdb_initialized, backend_exists, index, last, eb, bt,
                   gemini_initialized>>

\* self._initialize_gemini() (line 140) precedes the provider call
QueryGenerate(gen) ==
    /\ rq.op = "query" /\ rq.pc = "GENERATING"
    /\ rq' = [GenerateStep(rq, gen) EXCEPT !.h_failed = (gen = "fail")]
    /\ gemini_initialized' = TRUE
    /\ UNCHANGED <<emb_initialized, vdb_initialized, backend_exists, index, last, eb, bt>>

\* the store a query runs against: empty, or filled by the indexer
FreshWorld == [emb |-> FALSE, vdb |-> FALSE, exists |-> FALSE, index |-> {}]

IndexedAll(content_items) ==
    LET RECURSIVE Go(_, _)
        Go(w, k) == IF k > Len(content_items) THEN w
                    ELSE Go(index_content_item(w, content_items[k], "ok").w, k + 1)
    IN  Go(FreshWorld, 1).index

QuerySeeds ==
    {IndexedAll(<<>>),
     IndexedAll(<<ContentItem("doc2", BodyOf(1, 1), NoMetadata)>>),
     IndexedAll(<<ContentItem("doc2", BodyOf(1, 1), NoMetadata),
                  ContentItem("doc1", BodyOf(2, 1), NoMetadata)>>)}

QueryTexts == {<<1>>, <<2>>, <<3>>}

Subjects == {NoSubject, "physics", "chemistry"}

\* 0.7 (the default) and 1.0, in tenths
Thresholds == {7, ScoreScale}

Queries ==
    {RAGQuery(q, sub, k, th, fl) :
        q \in QueryTexts, sub \in Subjects, k \in 1..MaxTopK, th \in Thresholds,
        fl \in {NoMetadata, [subject |-> "chemistry"]}}

InitQuery ==
    /\ emb_initialized = FALSE
    /\ vdb_initialized = FALSE
    /\ index \in QuerySeeds
    /\ backend_exists = (index # {})
    /\ last = Idle
    /\ eb = EbIdle
    /\ bt = Idle
    /\ rq = Idle
    /\ gemini_initialized = FALSE

NextQuery ==
    \/ \E q \in Queries : QueryStart(q)
    \/ \E s \in BOOLEAN, c \in BOOLEAN : QueryEmbed(s, c)
    \/ \E s \in SetupOutcomes, c \in BOOLEAN : QueryRetrieve(s, c)
    \/ QueryNoResults
    \/ QueryLowConfidence
    \/ \E g \in {"ok", "empty", "fail"} : QueryGenerate(g)

SpecQuery == InitQuery /\ [][NextQuery]_vars

\* the ids of the stored vectors whose metadata.content_id is content_id
IdsOf(content_id) ==
    {v.id : v \in {x \in index : x.metadata["content_id"] = content_id}}

\* the chunk ids of a content item: {id}_chunk_0 .. {id}_chunk_(n-1)
ChunkIdsOf(content_item) ==
    {chunk_id(content_item.id, k) :
        k \in 0..(Len(chunk_text(content_item.content_text)) - 1)}

\* C1: after reindex(content_id, updated_item) has returned, with
\* updated_item.id = content_id, the stored vectors whose metadata.content_id
\* is content_id are exactly the chunks content_id_chunk_0 ..
\* content_id_chunk_(n-1) of the updated item.
C1_ReindexLeavesExactlyNewChunks ==
    (last.op = "reindex" /\ ~last.raised /\ last.content_id = last.item.id) =>
        IdsOf(last.content_id) = ChunkIdsOf(last.item)

\* C7: a RAGPipelineError raised by the indexer carries the retryable flag of
\* the failure it wraps.
C7_RetryableInherited ==
    (last.op \in {"index", "reindex", "delete"} /\ last.raised) =>
        /\ last.error.code = "RAG_PIPELINE_ERROR"
        /\ last.error.retryable = last.cause.retryable

\* the ids of the items of the batch whose indexing raised, in list order
RECURSIVE FailingIds(_)
FailingIds(k) ==
    IF k > Len(bt.log) THEN <<>>
    ELSE (IF bt.log[k] THEN <<bt.content_items[k].id>> ELSE <<>>) \o FailingIds(k + 1)

\* C2: when index_content_batch returns, every item of the list has been
\* processed whether or not an earlier one failed, the failures list names
\* the failing items by id in list order, failed_items and successful_items
\* count the failing items and the others, and the chunk vectors of every
\* item that did not fail are in the store.
C2_BatchIsolation ==
    (bt.op = "batch" /\ bt.pc = "returned") =>
        /\ Len(bt.log) = Len(bt.content_items)
        /\ [j \in 1..Len(bt.report.failures) |-> bt.report.failures[j].content_id]
              = FailingIds(1)
        /\ bt.report.failed_items = Len(FailingIds(1))
        /\ bt.report.successful_items = Len(bt.content_items) - Len(FailingIds(1))
        /\ \A k \in 1..Len(bt.content_items) :
              ~bt.log[k] => ChunkIdsOf(bt.content_items[k]) \subseteq {v.id : v \in index}

\* a returned batch in which an item with chunks follows a failing item
C2_Witness ==
    /\ bt.op = "batch" /\ bt.pc = "returned"
    /\ \E k \in 1..(Len(bt.content_items) - 1) :
          /\ bt.log[k]
          /\ ~bt.log[k + 1]
          /\ ChunkIdsOf(bt.content_items[k + 1]) # {}
          /\ bt.content_items[k + 1].id # bt.content_items[k].id

\* C10: for both services, in any sequence of initialize calls and
\* operations: a call made while the service is uninitialized performs the
\* setup itself, a call made once it is initialized performs none, and the
\* service is initialized after a call exactly when it was before or the
\* setup attempted by the call succeeded (a failed setup leaves it
\* uninitialized, so that the next call attempts it again).
C10_InitializeOnce ==
    [][ /\ last'.svc = "emb" =>
              /\ last'.emb_setup = ~emb_initialized
              /\ emb_initialized' = (emb_initialized \/ last'.setup_ok)
              /\ ~last'.vdb_setup /\ UNCHANGED <<vdb_initialized, backend_exists>>
        /\ last'.svc = "vdb" =>
              /\ last'.vdb_setup = ~vdb_initialized
              /\ vdb_initialized' = (vdb_initialized \/ last'.setup_ok)
              /\ ~last'.emb_setup /\ UNCHANGED emb_initialized
              /\ (backend_exists /\ ~backend_exists') = FALSE
              /\ vdb_initialized => UNCHANGED backend_exists ]_vars

\* both services initialized and an operation that went through without
\* performing any setup
C10_Witness ==
    /\ emb_initialized /\ vdb_initialized
    /\ last.op = "query_similar" /\ ~last.raised
    /\ ~last.vdb_setup /\ ~last.emb_setup
    /\ last.value # <<>>

IsPrefix(p, q) == Len(p) <= Len(q) /\ \A k \in 1..Len(p) : p[k] = q[k]

\* a completed call of the query service
QueryDone == rq.op = "query" /\ rq.pc = "DONE"

\* the vector index has answered the running query with results whose mean
\* similarity is strictly below the threshold
RetrievedLow ==
    /\ rq.op = "query" /\ rq.h_retrieved /\ rq.h_results # <<>>
    /\ SumScores(rq.h_results) < rq.query.confidence_threshold * Len(rq.h_results)

\* C3: when the vector index has answered with a non-empty result set whose
\* mean similarity is strictly below confidence_threshold, the generation
\* capability is never called and the call ends with a response whose
\* confidence is that mean, with empty contexts and sources,
\* metadata.reason = "low_confidence" and the threshold echoed.
C3_LowConfidencePath ==
    RetrievedLow =>
        /\ "generate" \notin Range(rq.calls)
        /\ rq.pc = "DONE" =>
              /\ ~rq.raised
              /\ rq.response.confidence.den > 0
              /\ rq.response.confidence.num * Len(rq.h_results)
                    = SumScores(rq.h_results) * rq.response.confidence.den
              /\ rq.response.contexts = <<>>
              /\ rq.response.sources = <<>>
              /\ Get(rq.response.metadata, "reason", "") = "low_confidence"
              /\ Get(rq.response.metadata, "threshold", -1) = rq.query.confidence_threshold

\* a completed low-confidence call over several results of unequal scores
C3_Witness ==
    /\ QueryDone /\ RetrievedLow
    /\ Len(rq.h_results) >= 2
    /\ \E j, k \in 1..Len(rq.h_results) :
          rq.h_results[j].similarity_score # rq.h_results[k].similarity_score
    /\ SumScores(rq.h_results) > 0

\* the vector index has answered the running query with no result
RetrievedNothing == rq.op = "query" /\ rq.h_retrieved /\ rq.h_results = <<>>

\* C4: when the vector index has answered with an empty result set, no
\* confidence is computed, the generation capability is never called, and the
\* call ends with confidence 0.0, empty contexts and sources and
\* metadata.reason = "no_results".
C4_NoResultsPath ==
    RetrievedNothing =>
        /\ rq.avg_confidence = NotComputed
        /\ "generate" \notin Range(rq.calls)
        /\ rq.pc \in {"NO_RESULTS", "DONE"}
        /\ rq.pc = "DONE" =>
              /\ ~rq.raised
              /\ rq.response.confidence.num = 0 /\ rq.response.confidence.den > 0
              /\ rq.response.contexts = <<>>
              /\ rq.response.sources = <<>>
              /\ Get(rq.response.metadata, "reason", "") = "no_results"

\* a completed no-result call against a store that holds vectors (the filter
\* matched none of them)
C4_Witness == QueryDone /\ RetrievedNothing /\ index # {} /\ ~rq.raised

\* the phases of a call but the closing DONE
TraceBody == IF rq.pc = "DONE" THEN SubSeq(rq.trace, 1, Len(rq.trace) - 1) ELSE rq.trace

\* what a call with these arguments answers over the store idx when its
\* outbound calls succeed: the store filtered by the caller's filters with
\* the subject constraint, ranked against the embedding of the query text
AnswerOver(query, idx, gen) ==
    LET wanted == [k \in DOMAIN query.filters
                        \cup (IF query.subject # NoSubject THEN {"subject"} ELSE {}) |->
                     IF k = "subject" /\ query.subject # NoSubject
                     THEN query.subject ELSE query.filters[k]]
        matches == BackendQuery(idx, Embed(query.query), query.top_k, wanted)
        results == [k \in 1..Len(matches) |-> SimilaritySearchResult(matches[k])]
        mean == [num |-> SumScores(results), den |-> Len(results)]
    IN  IF results = <<>> THEN NoResultsResponse(query)
        ELSE IF mean.num < query.confidence_threshold * mean.den
        THEN LowConfidenceResponse(query, mean)
        ELSE GeneratedResponse(query, results, mean, gen)

\* C5: within one query call the phases are EMBEDDING, RETRIEVING, then one
\* of NO_RESULTS, LOW_CONFIDENCE, GENERATING, then DONE (a call that raises
\* stops earlier); the outbound calls are the embedding, then the vector
\* query, then at most one generation, which is made only in the GENERATING
\* branch; and the response of a call that returns is the one its arguments
\* and the store determine, whatever calls came before.
C5_PhaseOrder ==
    rq.op = "query" =>
        /\ IsPrefix(rq.calls, <<"embed", "vector_query", "generate">>)
        /\ \E b \in {"NO_RESULTS", "LOW_CONFIDENCE", "GENERATING"} :
              IsPrefix(TraceBody, <<"EMBEDDING", "RETRIEVING", b>>)
        /\ "vector_query" \in Range(rq.calls) => Len(rq.query_embedding) = 1
        /\ "generate" \in Range(rq.calls) =>
              Len(rq.trace) >= 3 /\ rq.trace[3] = "GENERATING"
        /\ (rq.pc = "DONE" /\ ~rq.raised) =>
              /\ Len(TraceBody) = 3
              /\ ("generate" \in Range(rq.calls)) = (rq.trace[3] = "GENERATING")
              /\ \E gen \in {"ok", "empty"} : rq.response = AnswerOver(rq.query, index, gen)

\* a call that ended in the low-confidence branch after an earlier call of
\* the same service had gone through generation
C5_Witness ==
    /\ QueryDone /\ ~rq.raised
    /\ gemini_initialized
    /\ rq.trace = <<"EMBEDDING", "RETRIEVING", "LOW_CONFIDENCE", "DONE">>

\* C6: a query call raises exactly when one of its outbound calls (embedding,
\* vector index, generation) has failed, and what it raises is a
\* RAGPipelineError; in particular a call that ended in the no-result or the
\* low-confidence branch returned a response.
C6_RaisesOnlyOnCallFailure ==
    QueryDone =>
        /\ rq.raised = rq.h_failed
        /\ rq.raised => rq.error.code = "RAG_PIPELINE_ERROR"
        /\ (rq.h_retrieved /\ "generate" \notin Range(rq.calls)) =>
              /\ ~rq.raised
              /\ rq.response.query = rq.query.query
              /\ ConfidenceValid(rq.response.confidence)

\* a call whose outbound calls all succeeded, answered from the store with
\* too little confidence, and returned
C6_Witness ==
    /\ QueryDone /\ ~rq.h_failed /\ ~rq.raised
    /\ rq.h_retrieved /\ rq.h_results # <<>>
    /\ "generate" \notin Range(rq.calls)
    /\ ~gemini_initialized

\* C11: index_content_item on an item whose body yields no chunk returns
\* success = false with zero counts and the explanatory message; it does not
\* raise, performs no embedder setup and leaves the stored vectors and both
\* services as they were.
C11_ZeroChunksReported ==
    [][(/\ last'.op = "index"
        /\ last'.env # "chunking"
        /\ chunk_text(last'.item.content_text) = <<>>) =>
          /\ ~last'.raised
          /\ last'.value = [content_id |-> last'.item.id, chunks_created |-> 0,
                            embeddings_generated |-> 0, success |-> FALSE,
                            message |-> "No chunks created from content",
                            reindexed |-> FALSE]
          /\ ~last'.emb_setup /\ ~last'.vdb_setup
          /\ UNCHANGED <<emb_initialized, vdb_initialized, backend_exists, index>>]_vars

\* an item without chunks was handed to index_content_item while vectors
\* of an earlier version of it were stored
C11_Witness ==
    /\ last.op = "index" /\ ~last.raised
    /\ last.item.content_text = <<>>
    /\ last.value.chunks_created = 0
    /\ IdsOf(last.item.id) # {}

\* C12: a successful index_content_item producing n chunks writes exactly
\* the n vectors {id}_chunk_0 .. {id}_chunk_(n-1), one per id; the vector
\* {id}_chunk_i holds the embedding of the i-th chunk text and has
\* chunk_index = i and total_chunks = n; vectors under other ids stay.
C12_OneVectorPerChunk ==
    [][(last'.op = "index" /\ ~last'.raised /\ last'.value.success) =>
          LET item == last'.item
              chunks == chunk_text(item.content_text)
              n == Len(chunks)
              ids == {chunk_id(item.id, i) : i \in 0..(n - 1)}
          IN  /\ last'.value.chunks_created = n
              /\ last'.value.embeddings_generated = n
              /\ Cardinality(ids) = n
              /\ \A i \in 0..(n - 1) :
                    LET written == {v \in index' : v.id = chunk_id(item.id, i)} IN
                    /\ Cardinality(written) = 1
                    /\ \A v \in written :
                          /\ v.values = Embed(chunks[i + 1])
                          /\ v.metadata["chunk_index"] = i
                          /\ v.metadata["total_chunks"] = n
                          /\ v.metadata["text"] = chunks[i + 1]
              /\ {v \in index' : v.id \notin ids} = {v \in index : v.id \notin ids}]_vars

\* an item of several chunks with distinct embeddings has been indexed
\* next to the vectors of another item
C12_Witness ==
    /\ last.op = "index" /\ ~last.raised /\ last.value.success
    /\ last.value.chunks_created = MaxChunks
    /\ \E v \in index : v.id = chunk_id("doc2", 0)
    /\ \E u, v \in index :
          /\ u.id = chunk_id(last.item.id, 0)
          /\ v.id = chunk_id(last.item.id, 1)
          /\ u.values # v.values

\* C13: every vector written by index_content_item carries
\* metadata.content_id = content_item.id and the item's subject, type,
\* chapter, topic_id and difficulty, whatever keys the extension metadata
\* has; the extension fields are carried besides them.
C13_TagsCarried ==
    [][(last'.op = "index" /\ ~last'.raised /\ last'.value.success) =>
          LET item == last'.item
              n == Len(chunk_text(item.content_text))
          IN  \A i \in 0..(n - 1) :
                \A v \in {x \in index' : x.id = chunk_id(item.id, i)} :
                    /\ v.metadata["content_id"] = item.id
                    /\ v.metadata["subject"] = item.subject
                    /\ v.metadata["type"] = item.type
                    /\ v.metadata["chapter"] = item.chapter
                    /\ v.metadata["topic_id"] = item.topic_id
                    /\ v.metadata["difficulty"] = item.difficulty
                    /\ \A k \in DOMAIN item.metadata :
                          v.metadata["content_" \o k] = item.metadata[k]]_vars

\* C14: no step of a query call, in any branch and whether the call returns
\* or raises, changes the set of stored vectors, and the only outbound calls
\* of a query are the embedding, the vector query and the generation.
C14_QueryReadsOnly ==
    [][/\ index' = index
       /\ rq'.op = "query" =>
             Range(rq'.calls) \subseteq {"embed", "vector_query", "generate"}]_vars

\* a query raised on its retrieval over a store that holds vectors
C14_Witness ==
    /\ QueryDone /\ rq.raised
    /\ "vector_query" \in Range(rq.calls)
    /\ vdb_initialized
    /\ Cardinality(index) >= 2

\* C15 as stated: a query_similar call made while the service is not
\* initialized, or while the store holds no vectors, returns the empty
\* sequence and does not raise.
C15_NeverRaises ==
    [][(last'.op = "query_similar" /\ (~vdb_initialized \/ index = {})) =>
          ~last'.raised /\ last'.value = <<>>]_vars

\* C15 as amended: a query_similar call made while the service is not
\* initialized performs the setup itself; the call raises exactly when the
\* setup or the query is failed by the backend or a returned score is
\* rejected, and then raises VectorDBError; otherwise it returns the
\* matching vectors of the store, which over a store holding no vectors is
\* the empty sequence.
C15_EmptyStoreAnswersEmpty ==
    [][last'.op = "query_similar" =>
             LET callsOk == (vdb_initialized \/ last'.setup_ok) /\ last'.call_ok
                 matches == BackendQuery(index, last'.arg, 1, NoMetadata)
                 scoresOk == \A k \in 1..Len(matches) : ScoreValid(matches[k].score)
             IN  /\ last'.vdb_setup = ~vdb_initialized
                 /\ last'.raised = ~(callsOk /\ scoresOk)
                 /\ last'.raised => last'.error = VectorDBError
                 /\ ~last'.raised => Len(last'.value) = Len(matches)
                 /\ (index = {} /\ callsOk) => (~last'.raised /\ last'.value = <<>>)
                 /\ index' = index]_vars

\* a query made before any initialize over a store without vectors set the
\* service up and returned the empty sequence
C15_Witness ==
    /\ last.op = "query_similar" /\ ~last.raised
    /\ last.vdb_setup /\ vdb_initialized
    /\ index = {}
    /\ last.value = <<>>

\* C16: delete_content_index(content_id), when the backend serves its
\* calls, removes exactly the vectors whose metadata.content_id is
\* content_id and reports success; a call that raises removes nothing; and
\* the call is idempotent: over a store without such vectors, and so when
\* repeated, it gives the same report and leaves the store as it is.
C16_DeleteIdempotent ==
    [][last'.op = "delete" =>
          LET c == last'.content_id
              served == /\ last'.env # "delete"
                        /\ vdb_initialized \/ SetupSucceeds(World, VdbSetupOf(last'.env))
              again == delete_content_index([World EXCEPT !.index = index',
                                                          !.vdb = vdb_initialized',
                                                          !.exists = backend_exists'],
                                            c, "ok")
          IN  /\ last'.raised = ~served
              /\ last'.raised => index' = index
              /\ ~last'.raised =>
                    /\ last'.value = [content_id |-> c, success |-> TRUE]
                    /\ index' = {v \in index : v.metadata["content_id"] # c}
                    /\ (\A v \in index : v.metadata["content_id"] # c) => index' = index
                    /\ ~again.raised
                    /\ again.value = last'.value
                    /\ again.w.index = index']_vars

\* the vectors of one content id have been deleted and those of another
\* are still stored
C16_Witness ==
    /\ last.op = "delete" /\ ~last.raised
    /\ IdsOf(last.content_id) = {}
    /\ \E v \in index : v.metadata["content_id"] # last.content_id
    /\ ~last.vdb_setup

\* ------------------------------------------ chunk_text with explicit sizes
\* Texts are sequences of characters over letters and the blank. Of the
\* separators ["\n\n", "\n", ". ", " ", ""] (line 47) only " " and "" occur
\* in such texts. A piece of the text is the span [from, to] of its
\* positions.
Blank == " "

Chars == {"a", "b", Blank}

SpanLen(sp) == sp.to - sp.from + 1

SpanText(text, sp) == SubSeq(text, sp.from, sp.to)

\* the spans that start at the positions of B, each running up to the next
\* one, the last up to `to`
RECURSIVE SpanSeq(_, _)
SpanSeq(B, to) ==
    IF B = {} THEN <<>>
    ELSE LET b == CHOOSE x \in B : \A y \in B : x <= y
             rest == B \ {b}
             e == IF rest = {} THEN to ELSE (CHOOSE x \in rest : \A y \in rest : x <= y) - 1
         IN  (IF e >= b THEN <<[from |-> b, to |-> e]>> ELSE <<>>) \o SpanSeq(rest, to)

\* the splitter cutting on " " and keeping the separator at the start of
\* the piece that follows it; empty pieces are dropped
SplitOnBlank(text, sp) ==
    SpanSeq({c \in sp.from..sp.to : c = sp.from \/ text[c] = Blank}, sp.to)

\* the splitter cutting on "": list(text)
SplitChars(sp) ==
    [k \in 1..SpanLen(sp) |-> [from |-> sp.from + k - 1, to |-> sp.from + k - 1]]

\* _join_docs: the pieces joined (they are adjacent) and stripped of
\* surrounding blanks; nothing if nothing is left
JoinDocs(text, current) ==
    IF current = <<>> THEN <<>>
    ELSE LET whole == [from |-> current[1].from, to |-> current[Len(current)].to]
             inked == {c \in whole.from..whole.to : text[c] # Blank}
         IN  IF inked = {} THEN <<>>
             ELSE <<[from |-> CHOOSE x \in inked : \A y \in inked : x <= y,
                     to |-> CHOOSE x \in inked : \A y \in inked : x >= y]>>

\* the while loop of _merge_splits: pieces are dropped from the front of
\* the current chunk until what is left fits the overlap and the next piece
\* fits the chunk; popping from an empty chunk is an IndexError
RECURSIVE PopFront(_, _, _, _, _)
PopFront(current, total, len, chunk_size, chunk_overlap) ==
    IF total > chunk_overlap \/ (total + len > chunk_size /\ total > 0)
    THEN IF current = <<>>
         THEN [raised |-> TRUE, current |-> current, total |-> total]
         ELSE PopFront(Tail(current), total - SpanLen(current[1]), len,
                       chunk_size, chunk_overlap)
    ELSE [raised |-> FALSE, current |-> current, total |-> total]

\* _merge_splits with the empty separator (keep_separator is on)
RECURSIVE MergeSplits(_, _, _, _, _, _, _, _)
MergeSplits(text, splits, k, current, total, docs, chunk_size, chunk_overlap) ==
    IF k > Len(splits)
    THEN [raised |-> FALSE, docs |-> docs \o JoinDocs(text, current)]
    ELSE LET len == SpanLen(splits[k])
             over == total + len > chunk_size /\ current # <<>>
             p == IF over THEN PopFront(current, total, len, chunk_size, chunk_overlap)
                  ELSE [raised |-> FALSE, current |-> current, total |-> total]
         IN  IF p.raised THEN [raised |-> TRUE, docs |-> <<>>]
             ELSE MergeSplits(text, splits, k + 1, Append(p.current, splits[k]),
                              p.total + len,
                              IF over THEN docs \o JoinDocs(text, current) ELSE docs,
                              chunk_size, chunk_overlap)

\* RecursiveCharacterTextSplitter._split_text over the span sp. level 1
\* tries " " and falls through to "" when the span has no blank; level 2
\* is the call with the separators that remain, [""]. A piece shorter than
\* chunk_size is kept for merging; a longer one is split further when
\* separators remain and taken as it is otherwise.
RECURSIVE SplitSpan(_, _, _, _, _)
RECURSIVE SplitLoop(_, _, _, _, _, _, _, _)
SplitLoop(text, splits, k, good, final, further, chunk_size, chunk_overlap) ==
    LET merged == IF good = <<>> THEN [raised |-> FALSE, docs |-> <<>>]
                  ELSE MergeSplits(text, good, 1, <<>>, 0, <<>>, chunk_size, chunk_overlap)
    IN  IF k > Len(splits)
        THEN [raised |-> merged.raised, chunks |-> final \o merged.docs]
        ELSE IF SpanLen(splits[k]) < chunk_size
        THEN SplitLoop(text, splits, k + 1, Append(good, splits[k]), final, further,
                       chunk_size, chunk_overlap)
        ELSE LET inner == IF further
                          THEN SplitSpan(text, splits[k], 2, chunk_size, chunk_overlap)
                          ELSE [raised |-> FALSE, chunks |-> <<splits[k]>>]
             IN  IF merged.raised \/ inner.raised
                 THEN [raised |-> TRUE, chunks |-> <<>>]
                 ELSE SplitLoop(text, splits, k + 1, <<>>,
                                final \o merged.docs \o inner.chunks, further,
                                chunk_size, chunk_overlap)

SplitSpan(text, sp, level, chunk_size, chunk_overlap) ==
    LET onBlank == level = 1 /\ \E c \in sp.from..sp.to : text[c] = Blank
        splits == IF onBlank THEN SplitOnBlank(text, sp) ELSE SplitChars(sp)
    IN  SplitLoop(text, splits, 1, <<>>, <<>>, onBlank, chunk_size, chunk_overlap)

\* The argument check of the splitter's constructor (lines 43-48). Every
\* release of the library rejects an overlap larger than the chunk size;
\* the releases differ on a chunk size below 1 and an overlap below 0,
\* which `strict` releases reject as well.
SplitterRejects_geq(chunk_size, chunk_overlap, strict) ==
    \/ chunk_overlap >= chunk_size
    \/ strict /\ (chunk_size <= 0 \/ chunk_overlap < 0)

SplitterRejects(chunk_size, chunk_overlap, strict) ==
    \/ chunk_overlap > chunk_size
    \/ strict /\ (chunk_size <= 0 \/ chunk_overlap < 0)

\* ChunkingService.chunk_text, lines 40-55: build the splitter, split, and
\* wrap whatever is raised in ChunkingError. value holds the chunks, spans
\* the positions of the text each chunk was taken from.
chunk_text_sized(text, chunk_size, chunk_overlap, strict) ==
    LET r == SplitSpan(text, [from |-> 1, to |-> Len(text)], 1, chunk_size, chunk_overlap)
    IN  IF SplitterRejects(chunk_size, chunk_overlap, strict) \/ r.raised
        THEN [raised |-> TRUE, error |-> ChunkingError, value |-> <<>>, spans |-> <<>>]
        ELSE [raised |-> FALSE, error |-> NoError,
              value |-> [k \in 1..Len(r.chunks) |-> SpanText(text, r.chunks[k])],
              spans |-> r.chunks]

MaxTextLen == 4     \* characters of the longest text chunked
MaxChunkSize == 3   \* largest chunk_size tried

Texts == SeqsUpTo(Chars, MaxTextLen)

\* a call of chunk_text about to be made: its arguments and the release of
\* the splitter library that is installed
ChunkCall(text, chunk_size, chunk_overlap, strict) ==
    [op |-> "chunk_text", pc |-> "call", text |-> text, chunk_size |-> chunk_size,
     chunk_overlap |-> chunk_overlap, strict |-> strict]

ChunkText ==
    /\ last.op = "chunk_text" /\ last.pc = "call"
    /\ \E r \in {chunk_text_sized(last.text, last.chunk_size, last.chunk_overlap,
                                  last.strict)} :
          last' = [op |-> "chunk_text", pc |-> "done", text |-> last.text,
                   chunk_size |-> last.chunk_size, chunk_overlap |-> last.chunk_overlap,
                   strict |-> last.strict, raised |-> r.raised,
                   error |-> r.error, value |-> r.value, spans |-> r.spans]
    /\ UNCHANGED <<emb_initialized, vdb_initialized, backend_exists, index, eb, bt, rq,
                   gemini_initialized>>

InitChunk ==
    /\ emb_initialized = FALSE
    /\ vdb_initialized = FALSE
    /\ backend_exists = FALSE
    /\ index = {}
    /\ last \in {ChunkCall(text, cs, co, strict) :
                    text \in Texts, cs \in (-1)..MaxChunkSize,
                    co \in (-1)..(MaxChunkSize + 1), strict \in BOOLEAN}
    /\ eb = EbIdle
    /\ bt = Idle
    /\ rq = Idle
    /\ gemini_initialized = FALSE

NextChunk == ChunkText

SpecChunk == InitChunk /\ [][NextChunk]_vars

\* a completed chunk_text call
Chunked == last.op = "chunk_text" /\ last.pc = "done"

C18_SizedAndOverlapping ==
    (/\ Chunked /\ ~last.raised
     /\ last.chunk_size >= 1
     /\ last.chunk_overlap >= 0 /\ last.chunk_overlap < last.chunk_size) =>
        /\ \A i \in 1..Len(last.value) : Len(last.value[i]) <= last.chunk_size
        /\ \A i \in 1..(Len(last.spans) - 1) :
              LET this == last.spans[i]
                  next == last.spans[i + 1]
                  n == Min(last.chunk_overlap, SpanLen(this))
              IN  /\ SpanLen(next) >= n
                  /\ SubSeq(last.text, this.to - n + 1, this.to)
                        = SubSeq(last.text, next.from, next.from + n - 1)

\* ------------------------------ reindex_content next to concurrent queries
\* The calls are coroutines of one event loop: a call runs until an await
\* that suspends it. Awaiting initialize, the provider and the backend
\* suspends nothing (their calls are synchronous); the only await that
\* yields is asyncio.sleep(0.1) between two groups of
\* generate_embeddings_batch (embedding_service.py line 82). So a reindex
\* of an item of more than batch_size chunks is suspended, after its delete
\* and before its upsert, once per group but the last; a query runs from
\* entry to return without being suspended.

\* the frame of a reindex_content call; h_old is history: the ids stored
\* under content_id when the call was entered
ReindexFrame(pc, content_id, content_item, chunks, h_old, r) ==
    [op |-> "reindex", pc |-> pc, content_id |-> content_id, item |-> content_item,
     chunks |-> chunks, h_old |-> h_old,
     raised |-> r.raised, error |-> r.error, cause |-> r.cause, value |-> r.value]

\* reindex_content from the return of generate_embeddings_batch on
\* (content_indexer.py lines 63-81 and 170-174)
ReindexFinish(w, frame, f, env) ==
    LET u == upsert_vectors(w, Zip(frame.chunks, f.all_embeddings),
                            VdbSetupOf(env), env # "upsert")
        r == IF u.raised
             THEN Raise(u.w, RAGPipelineError(u.error), FALSE, FALSE)
             ELSE Return(u.w, [content_id |-> frame.item.id,
                               chunks_created |-> Len(frame.chunks),
                               embeddings_generated |-> Len(f.all_embeddings),
                               success |-> TRUE,
                               message |-> "Successfully indexed chunks",
                               reindexed |-> TRUE], FALSE, FALSE)
    IN  [w |-> r.w, eb |-> BatchReturn(f),
         frame |-> ReindexFrame("done", frame.content_id, frame.item, frame.chunks,
                                frame.h_old, r)]

\* one group of generate_embeddings_batch inside the reindex, up to the
\* sleep that follows it or, after the last group, to the end of the call
ReindexGroup(w, frame, f, env) ==
    LET g == BatchGroupStep(f, env # "embed") IN
    IF g.pc = "raised"
    THEN [w |-> w, eb |-> g,
          frame |-> ReindexFrame("done", frame.content_id, frame.item, frame.chunks,
                                 frame.h_old,
                                 Raise(w, RAGPipelineError(g.error), FALSE, FALSE))]
    ELSE IF g.i < Len(g.texts)
    THEN [w |-> w, eb |-> g, frame |-> [frame EXCEPT !.pc = "sleeping"]]
    ELSE ReindexFinish(w, frame, g, env)

\* index_content_item inside the reindex, up to the first suspension
ReindexIndex(w, content_id, content_item, h_old, env) ==
    LET chunks == chunk_content_item(content_item)
        frame == ReindexFrame("running", content_id, content_item, chunks, h_old,
                              Return(w, <<>>, FALSE, FALSE))
        done(r) == [w |-> r.w, eb |-> EbIdle,
                    frame |-> ReindexFrame("done", content_id, content_item, chunks,
                                           h_old, r)]
        init == initialize(w.emb, env # "emb_setup")
        f == BatchEnter([k \in 1..Len(chunks) |-> chunks[k].text], IndexerBatchSize,
                        init.raised)
        w1 == [w EXCEPT !.emb = init.initialized]
    IN  IF env = "chunking"
        THEN done(Raise(w, RAGPipelineError(ChunkingError), FALSE, FALSE))
        ELSE IF chunks = <<>>
        THEN done(Return(w, [content_id |-> content_item.id, chunks_created |-> 0,
                             embeddings_generated |-> 0, success |-> FALSE,
                             message |-> "No chunks created from content",
                             reindexed |-> TRUE], FALSE, FALSE))
        ELSE IF f.pc = "raised"
        THEN [done(Raise(w1, RAGPipelineError(f.error), FALSE, FALSE)) EXCEPT !.eb = f]
        ELSE ReindexGroup(w1, frame, f, env)

\* mutant of ReindexEnter: the chunks of the earlier version are not deleted
\* before the new ones are embedded
ReindexEnter_keep(w, content_id, content_item, env) ==
    ReindexIndex(w, content_id, content_item,
                 {v.id : v \in {x \in w.index : x.metadata["content_id"] = content_id}},
                 env)

\* reindex_content from its entry to its first suspension (lines 157-167)
ReindexEnter(w, content_id, content_item, env) ==
    LET h_old == {v.id : v \in {x \in w.index : x.metadata["content_id"] = content_id}}
        d == delete_by_filter(w, [content_id |-> content_id], VdbSetupOf(env),
                              env # "delete")
    IN  IF d.raised
        THEN [w |-> d.w, eb |-> EbIdle,
              frame |-> ReindexFrame("done", content_id, content_item, <<>>, h_old,
                                     Raise(d.w, d.error, FALSE, FALSE))]
        ELSE ReindexIndex(d.w, content_id, content_item, h_old, env)

\* RAGService.query from entry to return or raise (rag_service.py lines
\* 57-166), given what its outbound calls do: env names the first call that
\* fails, gen is what the generation provider does
query(w, q, env, gen) ==
    LET e == generate_embedding(w, q.query, env # "emb_setup", env # "embed")
        f1 == [EmbedStep(QueryEnter(q), e) EXCEPT !.h_failed = e.raised]
    IN  IF f1.pc = "DONE" THEN [w |-> e.w, frame |-> f1, generated |-> FALSE]
        ELSE
        LET r == query_similar(e.w, f1.query_embedding[1], q.top_k, BuildFilters(q),
                               VdbSetupOf(env), env # "vector")
            f2 == [RetrieveStep(f1, r) EXCEPT !.h_failed = r.raised,
                                              !.h_retrieved = ~r.raised,
                                              !.h_results = r.value]
        IN  [w |-> r.w,
             frame |-> CASE f2.pc = "NO_RESULTS" -> NoResultsStep(f2)
                         [] f2.pc = "LOW_CONFIDENCE" -> LowConfidenceStep(f2)
                         [] f2.pc = "GENERATING" ->
                                [GenerateStep(f2, gen) EXCEPT !.h_failed = (gen = "fail")]
                         [] OTHER -> f2,
             generated |-> f2.pc = "GENERATING"]

\* the query frame with one more history field: whether the call ran while
\* a reindex was suspended
During(f, during) ==
    [k \in DOMAIN f \cup {"h_during"} |-> IF k = "h_during" THEN during ELSE f[k]]

Reindexing == last.op = "reindex" /\ last.pc = "sleeping"

ReindexBegin(content_id, content_item, env) ==
    /\ ~Reindexing
    /\ \E r \in {ReindexEnter(World, content_id, content_item, env)} :
          /\ SetWorld(r.w)
          /\ eb' = r.eb
          /\ last' = r.frame
    /\ UNCHANGED <<bt, rq, gemini_initialized>>

\* the event loop resumes the reindex after asyncio.sleep(0.1)
ReindexWake(env) ==
    /\ Reindexing
    /\ \E r \in {ReindexGroup(World, last, eb, env)} :
          /\ SetWorld(r.w)
          /\ eb' = r.eb
          /\ last' = r.frame
    /\ UNCHANGED <<bt, rq, gemini_initialized>>

\* a query call, whenever the event loop is free: before, after or in the
\* middle of a reindex
RunQuery(q, env, gen) ==
    /\ \E r \in {query(World, q, env, gen)} :
          /\ SetWorld(r.w)
          /\ rq' = During(r.frame, Reindexing)
          /\ gemini_initialized' = (gemini_initialized \/ r.generated)
    /\ UNCHANGED <<last, eb, bt>>

\* the items handed to reindex: no chunk, one chunk, and one chunk more than
\* a group of generate_embeddings_batch holds
ReindexItems ==
    {ContentItem("doc1", BodyOf(n, 1), NoMetadata) : n \in {0, 1, IndexerBatchSize + 1}}

ReindexQueries ==
    {RAGQuery(<<1>>, NoSubject, MaxTopK, 7, fl) :
        fl \in {NoMetadata, [content_id |-> "doc1"]}}

QueryEnv == {"ok", "emb_setup", "embed", "vdb_list", "vdb_create", "vdb_connect",
             "vector"}

WakeEnv == {"ok", "embed", "vdb_list", "vdb_create", "vdb_connect", "upsert"}

InitReindex == InitQuery

NextReindex ==
    \/ \E c \in ContentIds, item \in ReindexItems, env \in ReindexEnv :
          ReindexBegin(c, item, env)
    \/ \E env \in WakeEnv : ReindexWake(env)
    \/ \E q \in ReindexQueries, env \in QueryEnv, gen \in {"ok", "empty", "fail"} :
          RunQuery(q, env, gen)

SpecReindex == InitReindex /\ [][NextReindex]_vars

\* C19: reindex is a delete followed by an upsert with nothing held between
\* them. While the reindex of content id c is suspended after its delete and
\* before its upsert, no stored vector is tagged content_id = c; a query can
\* run then (it is not blocked: with its outbound calls answering it
\* completes, and raises only over a match of the store whose score the
\* response model rejects), it leaves the suspended reindex and the store as
\* they were, it raises only when a call of its own raises, and its
\* response is the one the store as it stands determines, with no context
\* of c.
C19_ReindexNotAtomic ==
    [][ /\ Reindexing' => \A v \in index' : v.metadata["content_id"] # last'.content_id
        /\ Reindexing =>
              \A q \in ReindexQueries :
                 LET f == query(World, q, "ok", "ok").frame
                     matches == BackendQuery(index, Embed(q.query), q.top_k,
                                             BuildFilters(q))
                 IN  /\ f.pc = "DONE"
                     /\ f.raised => \E k \in DOMAIN matches :
                                        ~ScoreValid(matches[k].score)
        /\ (Reindexing /\ rq' # rq) =>
              /\ last' = last /\ eb' = eb /\ index' = index
              /\ rq'.raised = rq'.h_failed
              /\ ~rq'.raised =>
                    /\ \A k \in DOMAIN rq'.response.contexts :
                          rq'.response.contexts[k].content_id # last.content_id
                    /\ \E gen \in {"ok", "empty"} :
                          rq'.response = AnswerOver(rq'.query, index, gen)
      ]_vars

\* a reindex of a content id that had vectors is suspended, and a query for
\* that content id, run meanwhile, has returned "no results"
C19_Witness ==
    /\ Reindexing
    /\ last.h_old # {}
    /\ rq.op = "query" /\ rq.pc = "DONE" /\ ~rq.raised
    /\ rq.h_during
    /\ "content_id" \in DOMAIN rq.query.filters
    /\ rq.query.filters["content_id"] = last.content_id
    /\ rq.response.metadata.reason = "no_results"
    /\ index # {}

\* ------------------------------------------- providers that never answer
\* The outbound calls are self.model.get_embeddings(...) (embedding_service.py
\* lines 48 and 77, after from_pretrained at line 29), self.pc.list_indexes(),
\* create_index and Index (vector_db_service.py lines 26-41),
\* self.index.upsert / query / delete (lines 65, 106, 145, 172) and
\* model.generate_content(prompt) (rag_service.py line 148). None is passed a
\* timeout and none is wrapped in one.
NoTimeout == "none"

\* an outbound call as the code issues it
OutboundCall(kind) == [kind |-> kind, timeout |-> NoTimeout]

\* the frame f of an operation, waiting for the answer to an outbound call
Awaiting(f, call) ==
    [k \in DOMAIN f \cup {"pc", "call"} |->
        CASE k = "pc" -> "AWAITING"
          [] k = "call" -> call
          [] OTHER -> f[k]]

\* a synchronous call that does not return keeps the event loop: nothing
\* else runs in the process
Blocked == "call" \in DOMAIN last \/ "call" \in DOMAIN rq

\* the kind of the outbound call a step of the indexer makes
KindOfEnv(env) ==
    IF env \in {"emb_setup", "embed"} THEN "embedding" ELSE "vector"

\* the kind of the outbound call a phase of the query makes
KindOfPhase(pc) ==
    CASE pc = "EMBEDDING" -> "embedding"
      [] pc = "RETRIEVING" -> "vector"
      [] OTHER -> "generation"

\* the provider called in the current phase of the query never answers
QueryAwait ==
    /\ ~Blocked
    /\ rq.op = "query" /\ rq.pc \in {"EMBEDDING", "RETRIEVING", "GENERATING"}
    /\ rq' = Awaiting(rq, OutboundCall(KindOfPhase(rq.pc)))
    /\ UNCHANGED <<emb_initialized, vdb_initialized, backend_exists, index, last, eb, bt,
                   gemini_initialized>>

\* index_content_item or reindex_content up to an outbound call that never
\* answers: env names that call; the steps before it are those run before a
\* call that fails at the same place
IndexerAwait(op, content_id, content_item, env) ==
    /\ ~Blocked
    /\ NoBatch
    /\ env \notin {"ok", "chunking"}
    /\ op = "index" => content_id = content_item.id
    /\ \E r \in {IF op = "index" THEN index_content_item(World, content_item, env)
                 ELSE reindex_content(World, content_id, content_item, env)} :
          /\ r.raised
          /\ SetWorld(r.w)
          /\ last' = Awaiting(Outcome(op, content_id, content_item, env,
                                      Return(r.w, <<>>, r.emb_setup, r.vdb_setup)),
                              OutboundCall(KindOfEnv(env)))
    /\ UNCHANGED <<eb, bt, rq, gemini_initialized>>

TimeoutItems == {ContentItem("doc1", BodyOf(n, 1), NoMetadata) : n \in 0..1}

TimeoutQueries ==
    {RAGQuery(q, NoSubject, MaxTopK, 7, NoMetadata) : q \in QueryTexts}

InitTimeout == InitQuery

NextTimeout ==
    \/ ~Blocked /\ \E q \in TimeoutQueries : QueryStart(q)
    \/ ~Blocked /\ \E s \in BOOLEAN, c \in BOOLEAN : QueryEmbed(s, c)
    \/ ~Blocked /\ \E s \in SetupOutcomes, c \in BOOLEAN : QueryRetrieve(s, c)
    \/ ~Blocked /\ QueryNoResults
    \/ ~Blocked /\ QueryLowConfidence
    \/ ~Blocked /\ \E g \in {"ok", "empty", "fail"} : QueryGenerate(g)
    \/ ~Blocked /\ \E item \in TimeoutItems, env \in IndexEnv : IndexContentItem(item, env)
    \/ ~Blocked /\ \E c \in ContentIds, item \in TimeoutItems, env \in ReindexEnv :
                      ReindexContent(c, item, env)
    \/ QueryAwait
    \/ \E op \in {"index", "reindex"}, c \in ContentIds, item \in TimeoutItems,
          env \in ReindexEnv : IndexerAwait(op, c, item, env)

SpecTimeout == InitTimeout /\ [][NextTimeout]_vars

\* C20: every outbound call of query, index and reindex carries a timeout,
\* so that no operation is left waiting on a provider that never answers.
C20_CallsCarryTimeout ==
    /\ "call" \in DOMAIN rq => rq.call.timeout # NoTimeout
    /\ "call" \in DOMAIN last => last.call.timeout # NoTimeout

\* C21: a query call that returns over a non-empty result set reports as
\* confidence the arithmetic mean of the similarity scores of all the
\* results, a value in [0,1]; the low-confidence response is returned exactly
\* when the mean is strictly below confidence_threshold, so a mean equal to
\* the threshold takes the generation branch.
C21_ConfidenceIsMean ==
    (QueryDone /\ ~rq.raised /\ rq.h_retrieved /\ rq.h_results # <<>>) =>
        /\ rq.response.confidence.den > 0
        /\ rq.response.confidence.num * Len(rq.h_results)
              = SumScores(rq.h_results) * rq.response.confidence.den
        /\ ConfidenceValid(rq.response.confidence)
        /\ (Get(rq.response.metadata, "reason", "") = "low_confidence")
              <=> (SumScores(rq.h_results)
                      < rq.query.confidence_threshold * Len(rq.h_results))
        /\ ("generate" \in Range(rq.calls))
              <=> (SumScores(rq.h_results)
                      >= rq.query.confidence_threshold * Len(rq.h_results))

\* a generated response over results whose mean equals the threshold
C21_Witness ==
    /\ QueryDone /\ ~rq.raised /\ rq.h_retrieved /\ rq.h_results # <<>>
    /\ SumScores(rq.h_results) = rq.query.confidence_threshold * Len(rq.h_results)
    /\ "generate" \in Range(rq.calls)
    /\ Get(rq.response.metadata, "chunks_retrieved", 0) = Len(rq.h_results)

\* ------------------------------------------- providers that answer in part
\* index_content_item when the providers answer without an error but in
\* part: the embedder hands back `returned` vectors for the chunk texts and
\* the backend stores `stored` of the submitted vectors. zip(chunks,
\* embeddings) stops at the shorter list (content_indexer.py line 65) and the
\* answer of upsert_vectors, which carries the stored count, is dropped
\* (line 73).
index_content_item_answered(w, content_item, returned, stored) ==
    LET chunks == chunk_content_item(content_item) IN
    IF chunks = <<>>
    THEN index_content_item(w, content_item, "ok")
    ELSE
    LET chunk_texts == [k \in 1..Len(chunks) |-> chunks[k].text]
        e == generate_embeddings_batch(w, chunk_texts, IndexerBatchSize, TRUE, 0)
        embeddings == SubSeq(e.value, 1, Min(returned, Len(e.value)))
        vectors == Zip(chunks, embeddings)
        u == upsert_vectors(e.w, SubSeq(vectors, 1, Min(stored, Len(vectors))),
                            "ok", TRUE)
    IN  Return(u.w, [content_id |-> content_item.id,
                     chunks_created |-> Len(chunks),
                     embeddings_generated |-> Len(embeddings),
                     success |-> TRUE,
                     message |-> "Successfully indexed chunks",
                     reindexed |-> FALSE], e.emb_setup, u.vdb_setup)

IndexContentItemAnswered(content_item, returned, stored) ==
    /\ NoBatch
    /\ \E r \in {index_content_item_answered(World, content_item, returned, stored)} :
          /\ SetWorld(r.w)
          /\ last' = Outcome("index", content_item.id, content_item, "ok", r)
    /\ UNCHANGED <<eb, bt, rq, gemini_initialized>>

PlainItems ==
    {ContentItem("doc1", BodyOf(n, 1), NoMetadata) : n \in 0..MaxChunks}
    \cup {ContentItem("doc2", BodyOf(1, 1), NoMetadata)}

InitAnswered == InitCommon

NextAnswered ==
    \/ \E it \in PlainItems, returned \in 0..MaxChunks, stored \in 0..MaxChunks :
          IndexContentItemAnswered(it, returned, stored)
    \/ \E it \in PlainItems, env \in IndexEnv : IndexContentItem(it, env)
    \/ \E c \in ContentIds, env \in DeleteEnv : DeleteContentIndex(c, env)

SpecAnswered == InitAnswered /\ [][NextAnswered]_vars

\* C22: when index_content_item returns success = true with
\* chunks_created = n, embeddings_generated = n and the n chunk vectors of
\* the item are stored; so a short answer of the embedder or a partial upsert
\* is not reported as a full success.
C22_SuccessMeansAllStored ==
    (last.op = "index" /\ ~last.raised /\ last.value.success) =>
        /\ last.value.embeddings_generated = last.value.chunks_created
        /\ \A k \in 0..(last.value.chunks_created - 1) :
              \E v \in index : v.id = chunk_id(last.item.id, k)

\* C23: a generated response holds one context and one source per retrieved
\* result, in the order of the results; the k-th context carries the chunk
\* id, content id, text, similarity score and subject of the k-th result, and
\* metadata.chunks_retrieved is the number of results.
C23_ContextsFollowResults ==
    (QueryDone /\ ~rq.raised /\ "generate" \in Range(rq.calls)) =>
        /\ Len(rq.response.contexts) = Len(rq.h_results)
        /\ Len(rq.response.sources) = Len(rq.h_results)
        /\ Get(rq.response.metadata, "chunks_retrieved", -1) = Len(rq.h_results)
        /\ \A k \in 1..Len(rq.h_results) :
              /\ rq.response.contexts[k].chunk_id = rq.h_results[k].chunk_id
              /\ rq.response.contexts[k].content_id = rq.h_results[k].content_id
              /\ rq.response.contexts[k].text = rq.h_results[k].text
              /\ rq.response.contexts[k].similarity_score
                    = rq.h_results[k].similarity_score
              /\ rq.response.contexts[k].subject
                    = Get(rq.h_results[k].metadata, "subject", NoSubject)
              /\ rq.response.sources[k].id = rq.h_results[k].content_id
              /\ rq.response.sources[k].similarity = rq.h_results[k].similarity_score

\* C24: the filter a query sends to the vector index is the caller's
\* filters with key subject set to the query's subject when one is given
\* (replacing a subject entry of the filters); with no subject and empty
\* filters the retrieval carries no filter (the empty map); the results are
\* those the backend gives under that filter, and the query object with its
\* filters is the same after every step of the call.
C24_FilterMerge ==
    [][ /\ (rq.op = "query" /\ rq.pc # "DONE") => rq'.query = rq.query
        /\ (rq'.op = "query" /\ "vector_query" \in Range(rq'.calls)) =>
              LET q == rq'.query
                  wanted == [k \in DOMAIN q.filters
                                  \cup (IF q.subject # NoSubject THEN {"subject"} ELSE {}) |->
                               IF k = "subject" /\ q.subject # NoSubject
                               THEN q.subject ELSE q.filters[k]]
                  matches == BackendQuery(index', Embed(q.query), q.top_k, wanted)
              IN  /\ rq'.filters = wanted
                  /\ (q.subject = NoSubject /\ q.filters = NoMetadata) =>
                        rq'.filters = NoMetadata
                  /\ rq'.h_retrieved =>
                        rq'.h_results =
                           [k \in 1..Len(matches) |-> SimilaritySearchResult(matches[k])]
      ]_vars

\* a completed retrieval for a query whose subject replaced the subject
\* entry of its filters, with results
C24_Witness ==
    /\ rq.op = "query" /\ rq.h_retrieved /\ rq.h_results # <<>>
    /\ rq.query.subject # NoSubject
    /\ "subject" \in DOMAIN rq.query.filters
    /\ rq.query.filters["subject"] # rq.query.subject
    /\ rq.filters["subject"] = rq.query.subject

\* C25: in a BatchReport total_items = successful_items + failed_items,
\* successful_items counts the items whose own report has success = true (an
\* item of zero chunks is not one of them), total_chunks and
\* total_embeddings are sums over those items, and success is true only when
\* every item was indexed.
C25_BatchReportCounts ==
    (bt.op = "batch" /\ bt.pc = "returned") =>
        LET indexed == {k \in 1..Len(bt.results) : bt.results[k].success}
            RECURSIVE Total(_, _)
            Total(field, k) ==
                IF k > Len(bt.results) THEN 0
                ELSE (IF k \in indexed THEN bt.results[k][field] ELSE 0)
                     + Total(field, k + 1)
        IN  /\ bt.report.total_items
                  = bt.report.successful_items + bt.report.failed_items
            /\ bt.report.successful_items = Cardinality(indexed)
            /\ bt.report.total_chunks = Total("chunks_created", 1)
            /\ bt.report.total_embeddings = Total("embeddings_generated", 1)
            /\ bt.report.success =>
                  Cardinality(indexed) = Len(bt.content_items)

\* ContentService.reindex_all_content (content_service.py lines 407-453):
\* the rows of the content table, one per content id, are handed to
\* index_content_batch and its report is passed on; nothing is deleted
reindex_all_content(report) ==
    [success |-> report.success, total_items |-> report.total_items,
     successful_items |-> report.successful_items,
     failed_items |-> report.failed_items,
     total_chunks |-> report.total_chunks,
     total_embeddings |-> report.total_embeddings]

\* C26: after reindex_all_content has completed with no failed item, the
\* store holds for every content item exactly the chunks 0 .. n-1 of its
\* current body; no chunk of an earlier, longer version is left. (Stated for
\* rows of distinct ids without extension fields.)
C26_ReindexAllLeavesCurrentChunks ==
    (/\ bt.op = "batch" /\ bt.pc = "returned"
     /\ reindex_all_content(bt.report).failed_items = 0
     /\ \A j, k \in 1..Len(bt.content_items) :
           j # k => bt.content_items[j].id # bt.content_items[k].id
     /\ \A k \in 1..Len(bt.content_items) : bt.content_items[k].metadata = NoMetadata) =>
        \A k \in 1..Len(bt.content_items) :
            IdsOf(bt.content_items[k].id) = ChunkIdsOf(bt.content_items[k])

\* ------------------------------------------ two reindex calls in one loop
\* Two callers reindex the same content id with their own versions of the
\* item. Here `last` holds, for each caller, the frame of its reindex_content
\* call and of the generate_embeddings_batch call inside it; a call is
\* suspended only at the sleep between two embedding groups, and the event
\* loop resumes the suspended calls in any order.
Callers == {"c1", "c2"}

CallerIdle == [frame |-> Idle, eb |-> EbIdle, overlapped |-> FALSE]

Suspended(p) == last[p].frame.op = "reindex" /\ last[p].frame.pc = "sleeping"

RaceBegin(p, content_item, env) ==
    /\ ~Suspended(p)
    /\ \E r \in {ReindexEnter(World, content_item.id, content_item, env)} :
          /\ SetWorld(r.w)
          /\ last' = [q \in Callers |->
                        IF q = p
                        THEN [frame |-> r.frame, eb |-> r.eb,
                              overlapped |-> \E o \in Callers \ {p} : Suspended(o)]
                        ELSE [last[q] EXCEPT !.overlapped = @ \/ Suspended(q)]]
    /\ UNCHANGED <<eb, bt, rq, gemini_initialized>>

RaceWake(p, env) ==
    /\ Suspended(p)
    /\ \E r \in {ReindexGroup(World, last[p].frame, last[p].eb, env)} :
          /\ SetWorld(r.w)
          /\ last' = [last EXCEPT ![p].frame = r.frame, ![p].eb = r.eb]
    /\ UNCHANGED <<eb, bt, rq, gemini_initialized>>

\* the versions of doc1: one chunk, one chunk more than an embedding group,
\* and one more
RaceItems ==
    {ContentItem("doc1", BodyOf(n, 1), NoMetadata) :
        n \in {1, IndexerBatchSize + 1, IndexerBatchSize + 2}}

InitRace ==
    /\ emb_initialized = FALSE
    /\ vdb_initialized = FALSE
    /\ backend_exists = FALSE
    /\ index = {}
    /\ last = [p \in Callers |-> CallerIdle]
    /\ eb = EbIdle
    /\ bt = Idle
    /\ rq = Idle
    /\ gemini_initialized = FALSE

NextRace ==
    \/ \E p \in Callers, it \in RaceItems, env \in {"ok", "delete", "embed"} :
          RaceBegin(p, it, env)
    \/ \E p \in Callers, env \in {"ok", "embed", "upsert"} : RaceWake(p, env)

SpecRace == InitRace /\ [][NextRace]_vars

\* the stored form of the vectors the indexer builds for an item
StoredOf(content_item) == BackendUpsert({}, VectorsOf(content_item))

\* C27: when two reindex calls for one content id, carrying two versions of
\* the item, have run concurrently and both have returned, the stored vectors
\* of that content id are the chunks of one of the two versions, not a
\* mixture of both.
C27_OneVersionStored ==
    (/\ \A p \in Callers :
           /\ last[p].frame.op = "reindex" /\ last[p].frame.pc = "done"
           /\ ~last[p].frame.raised
           /\ last[p].overlapped
     /\ last["c1"].frame.content_id = last["c2"].frame.content_id
     /\ last["c1"].frame.item # last["c2"].frame.item) =>
        \E p \in Callers :
            {v \in index : v.metadata["content_id"] = last[p].frame.content_id}
                = StoredOf(last[p].frame.item)

\* ------------------------------------------ initialize from two threads
\* The module-level vector_db_service is used by the request handlers on the
\* server's event loop and by the re-index task, which the admin router runs
\* in a background thread with an event loop of its own (admin.py lines
\* 272-281). initialize holds no lock: its statements, each a read of the
\* flag or a call to the backend, interleave between the threads (the event
\* loop's and one per running re-index task). Here `last` holds the frame of
\* each thread's initialize call; creates and conflict are history.
Threads == {"loop", "worker1", "worker2"}

InitIdle == [pc |-> "idle", raised |-> FALSE, error |-> NoError,
             creates |-> 0, conflict |-> FALSE]

\* line 23: `if not self._initialized`
InitCheck(f, flag) ==
    IF flag THEN [f EXCEPT !.pc = "done"] ELSE [f EXCEPT !.pc = "list"]

\* lines 26-28: list_indexes and the membership test; the except clause of
\* line 43 when the call fails
InitList(f, exists, ok) ==
    IF ~ok THEN [f EXCEPT !.pc = "done", !.raised = TRUE, !.error = VectorDBError]
    ELSE IF exists THEN [f EXCEPT !.pc = "connect"]
    ELSE [f EXCEPT !.pc = "create"]

\* lines 30-38: create_index; the backend refuses a name that exists
InitCreate(f, exists) ==
    IF exists
    THEN [f EXCEPT !.pc = "done", !.raised = TRUE, !.error = VectorDBError,
                   !.creates = @ + 1, !.conflict = TRUE]
    ELSE [f EXCEPT !.pc = "connect", !.creates = @ + 1]

\* lines 41-42: pc.Index and the flag
InitConnect(f, ok) ==
    IF ok THEN [f EXCEPT !.pc = "done"]
    ELSE [f EXCEPT !.pc = "done", !.raised = TRUE, !.error = VectorDBError]

ThreadEnter(t) ==
    /\ last[t].pc = "idle"
    /\ last' = [last EXCEPT ![t] = InitCheck(last[t], vdb_initialized)]
    /\ UNCHANGED <<emb_initialized, vdb_initialized, backend_exists, index, eb, bt, rq,
                   gemini_initialized>>

ThreadList(t, ok) ==
    /\ last[t].pc = "list"
    /\ last' = [last EXCEPT ![t] = InitList(last[t], backend_exists, ok)]
    /\ UNCHANGED <<emb_initialized, vdb_initialized, backend_exists, index, eb, bt, rq,
                   gemini_initialized>>

ThreadCreate(t) ==
    /\ last[t].pc = "create"
    /\ last' = [last EXCEPT ![t] = InitCreate(last[t], backend_exists)]
    /\ backend_exists' = TRUE
    /\ UNCHANGED <<emb_initialized, vdb_initialized, index, eb, bt, rq,
                   gemini_initialized>>

ThreadConnect(t, ok) ==
    /\ last[t].pc = "connect"
    /\ last' = [last EXCEPT ![t] = InitConnect(last[t], ok)]
    /\ vdb_initialized' = (vdb_initialized \/ ok)
    /\ UNCHANGED <<emb_initialized, backend_exists, index, eb, bt, rq,
                   gemini_initialized>>

\* the call has raised; the next operation of the thread calls initialize
\* again
ThreadLeave(t) ==
    /\ last[t].pc = "done"
    /\ last[t].raised
    /\ last' = [last EXCEPT ![t].pc = "idle", ![t].raised = FALSE, ![t].error = NoError]
    /\ UNCHANGED <<emb_initialized, vdb_initialized, backend_exists, index, eb, bt, rq,
                   gemini_initialized>>

InitThreads ==
    /\ emb_initialized = FALSE
    /\ vdb_initialized = FALSE
    /\ backend_exists = FALSE
    /\ index = {}
    /\ last = [t \in Threads |-> InitIdle]
    /\ eb = EbIdle
    /\ bt = Idle
    /\ rq = Idle
    /\ gemini_initialized = FALSE

NextThreads ==
    \/ \E t \in Threads : ThreadEnter(t)
    \/ \E t \in Threads, ok \in BOOLEAN : ThreadList(t, ok)
    \/ \E t \in Threads : ThreadCreate(t)
    \/ \E t \in Threads, ok \in BOOLEAN : ThreadConnect(t, ok)
    \/ \E t \in Threads : ThreadLeave(t)

SpecThreads == InitThreads /\ [][NextThreads]_vars

\* C28: when the first use of the vector index comes from several threads
\* at once, the creation of the backend index is attempted at most once, and
\* neither thread's call fails because of the other's initialization.
C28_CreatedOnce ==
    /\ last["loop"].creates + last["worker1"].creates + last["worker2"].creates <= 1
    /\ \A t \in Threads : ~last[t].conflict

\* C29: when a reindex has completed its delete and its indexing step then
\* fails (chunking, embedding or upsert) or yields no chunk, the vectors of
\* the earlier version are not put back: no stored vector is tagged with the
\* content id, and the call has raised RAGPipelineError or, for no chunk,
\* returned success = false.
C29_NoRestoreAfterDelete ==
    (/\ last.op = "reindex" /\ last.pc = "done"
     /\ \/ last.raised /\ last.cause.code = "RAG_PIPELINE_ERROR"
        \/ ~last.raised /\ ~last.value.success) =>
        /\ IdsOf(last.content_id) = {}
        /\ last.raised => last.error.code = "RAG_PIPELINE_ERROR"
        /\ ~last.raised => (last.chunks = <<>> /\ last.value.chunks_created = 0)
        /\ last.chunks = <<>> => (~last.raised \/ last.cause = RAGPipelineError(ChunkingError))

\* a reindex of a content id that had vectors has failed after its delete,
\* while the store still holds the vectors of another content id
C29_Witness ==
    /\ last.op = "reindex" /\ last.pc = "done"
    /\ last.raised /\ last.cause.code = "RAG_PIPELINE_ERROR"
    /\ last.chunks # <<>>
    /\ last.h_old # {}
    /\ IdsOf(last.content_id) = {}
    /\ index # {}

\* C30: every result handed back by query_similar has a similarity score in
\* [0,1]; when the backend reports a match with a score outside that range
\* the retrieval fails as a whole with VectorDBError and the query raises
\* RAGPipelineError: it returns neither the in-range results nor a
\* low-confidence response, and calls no generation.
C30_ScoresInRange ==
    (rq.op = "query" /\ "vector_query" \in Range(rq.calls)) =>
        LET matches == BackendQuery(index, rq.query_embedding[1], rq.query.top_k,
                                    rq.filters)
        IN  /\ \A k \in 1..Len(rq.h_results) :
                  ScoreValid(rq.h_results[k].similarity_score)
            /\ (\E k \in 1..Len(matches) : ~ScoreValid(matches[k].score)) =>
                  /\ ~rq.h_retrieved
                  /\ rq.pc = "DONE" /\ rq.raised
                  /\ rq.error.code = "RAG_PIPELINE_ERROR"
                  /\ rq.cause = VectorDBError
                  /\ rq.response = <<>>
                  /\ "generate" \notin Range(rq.calls)

\* a query has raised over matches of which one is in range and one is not
C30_Witness ==
    /\ rq.op = "query" /\ rq.pc = "DONE" /\ rq.raised
    /\ "vector_query" \in Range(rq.calls)
    /\ rq.cause = VectorDBError
    /\ LET matches == BackendQuery(index, rq.query_embedding[1], rq.query.top_k,
                                   rq.filters)
       IN  /\ \E k \in 1..Len(matches) : ~ScoreValid(matches[k].score)
           /\ \E k \in 1..Len(matches) : ScoreValid(matches[k].score)

====
